---- MODULE Spec2Model ----
(***************************************************************************)
(* A model of the Perceiver implementation in                              *)
(* src/transformers/models/perceiver/modeling_perceiver.py.                *)
(*                                                                         *)
(* Tensors are modelled by their shapes (sequences of naturals) and, where *)
(* a claim is about contents, by symbolic values: a hidden state is the    *)
(* sequence of layer applications that produced it, a position is a tuple  *)
(* of exact rationals, a token of a multimodal sequence is a pair          *)
(* (modality, index).                                                      *)
(*                                                                         *)
(* The module holds several specifications over disjoint groups of         *)
(* variables:                                                              *)
(*   SpecEncoder   PerceiverEncoder.__init__ / forward, step by step       *)
(*   SpecPos       position encodings and PerceiverBasicDecoder.decoder_query *)
(*   SpecRestructure  multimodal concatenation and restructure             *)
(*   SpecForward   PerceiverModel.forward for the task models              *)
(*   SpecAttn      PerceiverSelfAttention.__init__                         *)
(*   SpecConstruct the constructors of the encoder and the preprocessors   *)
(*   SpecLayer     PerceiverLayer.__init__ / forward on shapes             *)
(*   SpecTask      PerceiverForOpticalFlow / MultimodalAutoencoding.forward *)
(*   SpecPreprocess  PerceiverImagePreprocessor, alone and padded         *)
(*   SpecRename    convert_detr_checkpoint: renaming the head keys        *)
(***************************************************************************)
EXTENDS Integers, Sequences, FiniteSets, TLC

\* ------------------------------------------------------------------ bounds

\* config.num_blocks ranges over 1..MaxBlocks
MaxBlocks == 3
\* config.num_self_attends_per_block ranges over 1..MaxSelfAttends
MaxSelfAttends == 3
\* every index dimension ranges over 1..MaxDim
MaxDim == 3
\* num_bands of a Fourier encoding ranges over 1..MaxBands
MaxBands == 2
\* batch sizes range over 1..MaxBatch
MaxBatch == 2
\* arbitrary subsample index lists have up to MaxPoints entries
MaxPoints == 2
\* a modality's token sequence has 1..MaxTokens tokens
MaxTokens == 2
\* channel counts (q_dim, kv_dim, qk_channels, v_channels) range over 1..MaxChannels
MaxChannels == 4
\* num_heads ranges over 1..MaxHeads
MaxHeads == 3
\* num_channels of the trainable position table in the modelled decoders
TableChannels == 2
\* text inputs have 1..MaxSeq tokens; config.max_position_embeddings ranges over 1..MaxSeq
MaxSeq == 2
\* images are 1..MaxImage pixels high and wide; config.image_size ranges over 1..MaxImage
MaxImage == 2

\* ------------------------------------------------------------------ helpers

\* Python's None where an integer is expected.
None == -1

\* the additive bias of a suppressed position
LargeNegative == -10000

RECURSIVE Prod(_)
\* np.prod of a tuple of dimensions
Prod(s) == IF s = <<>> THEN 1 ELSE Head(s) * Prod(Tail(s))

\* an optional tuple: Python's None or a tuple of values
NoTuple == [present |-> FALSE, items |-> <<>>]
EmptyTuple == [present |-> TRUE, items |-> <<>>]
TupleAdd(t, v) == [present |-> TRUE, items |-> Append(t.items, v)]

VARIABLES
    \* --- PerceiverEncoder
    enc_cfg,               \* config: num_blocks, num_self_attends_per_block
    cross_attention,       \* the encoder's cross-attention layer object
    self_attends,          \* nn.ModuleList: the sequence of self-attention layer objects
    enc_pc,                \* position inside PerceiverEncoder.forward
    enc_args,              \* arguments of the running call
    hidden_states,         \* symbolic value: the layer applications that produced it
    blk,                   \* outer loop counter (for _ in range(num_blocks))
    idx,                   \* inner loop counter (enumerate(self.self_attends))
    all_hidden_states,
    all_self_attentions,
    all_cross_attentions,
    enc_out,               \* the value returned by forward
    \* --- position encodings and PerceiverBasicDecoder.decoder_query
    pe_cfg,                \* the decoder's position-encoding configuration
    pe_op,                 \* the operation last called, with its arguments
    pe_out,                \* its result
    \* --- PerceiverMultimodalPreprocessor and restructure
    rs_cfg,                \* the modalities, in the order they were configured
    rs_pc,
    rs_padded,             \* dict modality -> its padded token sequence
    rs_final,              \* the concatenated sequence
    rs_sizes,              \* the modality-size map the preprocessor returns
    rs_parts,              \* the dict restructure returns
    \* --- PerceiverSelfAttention.__init__
    at_args,               \* the constructor's arguments
    at_obj,                \* the module constructed, or the error raised
    \* --- PerceiverModel.forward of the task models
    fw_cfg,                \* the model's config
    fw_pc,                 \* position inside forward
    fw_run,                \* how many calls have been made
    fw_args,               \* arguments of the running call
    fw_loc,                \* forward's local variables
    fw_out,                \* what the call returned, or the error it raised
    fw_first,              \* observer: the mask and the outcome of the first call
    fw_trace,              \* observer: the stages the running call has entered, in order
    fw_module,             \* the model's parameters and buffers
    \* --- constructors
    ct_args,               \* the constructor called, with its arguments
    ct_obj,                \* the module constructed, or the error raised
    \* --- PerceiverLayer
    ly_args,               \* the constructor's arguments and the shapes forward is called on
    ly_obj,                \* the layer constructed, or the error raised
    ly_out,                \* the results of forward's steps
    \* --- PerceiverForOpticalFlow / PerceiverForMultimodalAutoencoding .forward
    tk_cfg,                \* the task model constructed
    tk_pc,                 \* position in forward
    tk_args,               \* the arguments of the running call
    tk_loc,                \* forward's local variables
    tk_out,                \* what the call returned or raised
    \* --- PerceiverImagePreprocessor, alone and inside a PerceiverMultimodalPreprocessor
    pp_args,               \* the constructor's arguments and the input forward is called on
    pp_pc,                 \* what has been done with the preprocessor
    pp_out,                \* num_channels, the result of forward, the padded modalities
    \* --- convert_detr_checkpoint: the renaming of the classification heads
    rk_orig,               \* the state dict before the renaming
    rk_state_dict,         \* the state dict: a function from keys to tensors
    rk_i,                  \* how many rows of the rename table have been applied
    rk_status              \* "running", "done", or the error raised

encVars == <<enc_cfg, cross_attention, self_attends, enc_pc, enc_args, hidden_states,
             blk, idx, all_hidden_states, all_self_attentions, all_cross_attentions, enc_out>>

posVars == <<pe_cfg, pe_op, pe_out>>

rsVars == <<rs_cfg, rs_pc, rs_padded, rs_final, rs_sizes, rs_parts>>

atVars == <<at_args, at_obj>>

fwVars == <<fw_cfg, fw_pc, fw_run, fw_args, fw_loc, fw_out, fw_first, fw_trace,
            fw_module>>

ctVars == <<ct_args, ct_obj>>

lyVars == <<ly_args, ly_obj, ly_out>>

tkVars == <<tk_cfg, tk_pc, tk_args, tk_loc, tk_out>>

ppVars == <<pp_args, pp_pc, pp_out>>

rkVars == <<rk_orig, rk_state_dict, rk_i, rk_status>>

vars == <<encVars, posVars, rsVars, atVars, fwVars, ctVars, lyVars, tkVars, ppVars, rkVars>>

\* the variables outside each group
notEnc == <<posVars, rsVars, atVars, fwVars, ctVars, lyVars, tkVars, ppVars, rkVars>>
notPos == <<encVars, rsVars, atVars, fwVars, ctVars, lyVars, tkVars, ppVars, rkVars>>
notRs == <<encVars, posVars, atVars, fwVars, ctVars, lyVars, tkVars, ppVars, rkVars>>
notAt == <<encVars, posVars, rsVars, fwVars, ctVars, lyVars, tkVars, ppVars, rkVars>>
notFw == <<encVars, posVars, rsVars, atVars, ctVars, lyVars, tkVars, ppVars, rkVars>>
notCt == <<encVars, posVars, rsVars, atVars, fwVars, lyVars, tkVars, ppVars, rkVars>>
notLy == <<encVars, posVars, rsVars, atVars, fwVars, ctVars, tkVars, ppVars, rkVars>>
notTk == <<encVars, posVars, rsVars, atVars, fwVars, ctVars, lyVars, ppVars, rkVars>>
notPp == <<encVars, posVars, rsVars, atVars, fwVars, ctVars, lyVars, tkVars, rkVars>>
notRk == <<encVars, posVars, rsVars, atVars, fwVars, ctVars, lyVars, tkVars, ppVars>>

\* ------------------------------------------------------------------ PerceiverEncoder

\* Layer objects are identified by the order of their construction in
\* PerceiverEncoder.__init__: the cross-attention layer is object 0.
CrossAttentionLayer == 0

\* A mutant: one list of layers per block repetition (no weight sharing).
EncoderSelfAttendsUnshared(cfg) ==
    [i \in 1..(cfg.num_blocks * cfg.num_self_attends_per_block) |-> i]

\* self_attends: one PerceiverLayer per range(config.num_self_attends_per_block)
EncoderSelfAttends(cfg) == [i \in 1..cfg.num_self_attends_per_block |-> i]

EncConfigs ==
    [num_blocks : 1..MaxBlocks, num_self_attends_per_block : 1..MaxSelfAttends]

\* head_mask as PerceiverModel.forward prepares it (get_head_mask): a list with
\* num_blocks * num_self_attends_per_block entries, entry k identified by k
\* (0-based); or None when the encoder is called without one.
HeadMaskList(cfg) == [k \in 1..(cfg.num_blocks * cfg.num_self_attends_per_block) |-> k - 1]

EncIdle ==
    /\ enc_pc = "idle"
    /\ enc_args = [output_attentions |-> FALSE, output_hidden_states |-> FALSE,
                   return_dict |-> TRUE, head_mask |-> <<>>, has_head_mask |-> FALSE]
    /\ hidden_states = <<>>
    /\ blk = 0
    /\ idx = 0
    /\ all_hidden_states = NoTuple
    /\ all_self_attentions = NoTuple
    /\ all_cross_attentions = NoTuple
    /\ enc_out = <<>>

\* The encoder of the specifications that do not exercise it.
EncFrozen ==
    /\ enc_cfg = [num_blocks |-> 1, num_self_attends_per_block |-> 1]
    /\ cross_attention = CrossAttentionLayer
    /\ self_attends = <<1>>
    /\ EncIdle

\* State after PerceiverEncoder.__init__ .
EncInit ==
    /\ enc_cfg \in EncConfigs
    /\ cross_attention = CrossAttentionLayer
    /\ self_attends = EncoderSelfAttends(enc_cfg)
    /\ EncIdle

\* forward is entered: lines 599-601
EncCall ==
    /\ enc_pc \in {"idle", "done"}
    /\ \E oa \in BOOLEAN, ohs \in BOOLEAN, rd \in BOOLEAN, hm \in BOOLEAN :
         /\ enc_args' = [output_attentions |-> oa, output_hidden_states |-> ohs,
                         return_dict |-> rd,
                         head_mask |-> IF hm THEN HeadMaskList(enc_cfg) ELSE <<>>,
                         has_head_mask |-> hm]
         /\ all_hidden_states' = IF ohs THEN EmptyTuple ELSE NoTuple
         /\ all_self_attentions' = IF oa THEN EmptyTuple ELSE NoTuple
         /\ all_cross_attentions' = IF oa THEN EmptyTuple ELSE NoTuple
    /\ hidden_states' = <<>>        \* the embedding output: no layer applied yet
    /\ blk' = 0
    /\ idx' = 0
    /\ enc_out' = <<>>
    /\ enc_pc' = "cross"
    /\ UNCHANGED <<enc_cfg, cross_attention, self_attends>>
    /\ UNCHANGED notEnc

\* The value a layer produces: its input extended by the application
\* (which layer object, gated by which head-mask entry).
ApplyLayer(h, layer, head) == Append(h, [layer |-> layer, head |-> head])

\* lines 610-621: the cross-attention between the latents and the inputs
EncCrossAttend ==
    /\ enc_pc = "cross"
    /\ hidden_states' = ApplyLayer(hidden_states, cross_attention, None)
    /\ all_cross_attentions' =
         IF enc_args.output_attentions
         THEN TupleAdd(all_cross_attentions, hidden_states')
         ELSE all_cross_attentions
    /\ enc_pc' = IF enc_cfg.num_blocks > 0 THEN "self" ELSE "return"
    /\ UNCHANGED <<enc_cfg, cross_attention, self_attends, enc_args, blk, idx,
                   all_hidden_states, all_self_attentions, enc_out>>
    /\ UNCHANGED notEnc

\* line 631: layer_head_mask = head_mask[i] if head_mask is not None else None
LayerHeadMask(args, b, i) ==
    IF args.has_head_mask THEN args.head_mask[i + 1] ELSE None

\* lines 625-642: one iteration of the inner loop, layer i of block blk
EncSelfAttend ==
    /\ enc_pc = "self"
    /\ idx < Len(self_attends)
    /\ all_hidden_states' =
         IF enc_args.output_hidden_states
         THEN TupleAdd(all_hidden_states, hidden_states)
         ELSE all_hidden_states
    /\ hidden_states' = ApplyLayer(hidden_states, self_attends[idx + 1],
                                   LayerHeadMask(enc_args, blk, idx))
    /\ all_self_attentions' =
         IF enc_args.output_attentions
         THEN TupleAdd(all_self_attentions, hidden_states')
         ELSE all_self_attentions
    /\ idx' = idx + 1
    /\ UNCHANGED <<enc_cfg, cross_attention, self_attends, enc_pc, enc_args, blk,
                   all_cross_attentions, enc_out>>
    /\ UNCHANGED notEnc

\* lines 644-645: the inner loop is exhausted; the block's last state is recorded
EncBlockEnd ==
    /\ enc_pc = "self"
    /\ idx >= Len(self_attends)
    /\ all_hidden_states' =
         IF enc_args.output_hidden_states
         THEN TupleAdd(all_hidden_states, hidden_states)
         ELSE all_hidden_states
    /\ blk' = blk + 1
    /\ idx' = 0
    /\ enc_pc' = IF blk + 1 < enc_cfg.num_blocks THEN "self" ELSE "return"
    /\ UNCHANGED <<enc_cfg, cross_attention, self_attends, enc_args, hidden_states,
                   all_self_attentions, all_cross_attentions, enc_out>>
    /\ UNCHANGED notEnc

EncField(name, t) == [name |-> name, present |-> t.present, items |-> t.items]

\* the four values forward returns, in the order of lines 651-654 / 659-662
EncFields(h, ahs, asa, aca) ==
    << [name |-> "last_hidden_state", present |-> TRUE, items |-> <<h>>],
       EncField("hidden_states", ahs),
       EncField("attentions", asa),
       EncField("cross_attentions", aca) >>

\* lines 647-663
EncReturn ==
    /\ enc_pc = "return"
    /\ LET f == EncFields(hidden_states, all_hidden_states, all_self_attentions,
                          all_cross_attentions)
       IN  enc_out' = IF enc_args.return_dict THEN f
                      ELSE SelectSeq(f, LAMBDA x : x.present)
    /\ enc_pc' = "done"
    /\ UNCHANGED <<enc_cfg, cross_attention, self_attends, enc_args, hidden_states,
                   blk, idx, all_hidden_states, all_self_attentions, all_cross_attentions>>
    /\ UNCHANGED notEnc

EncNext == EncCall \/ EncCrossAttend \/ EncSelfAttend \/ EncBlockEnd \/ EncReturn

\* ------------------------------------------------------------------ position encodings

\* --- exact rationals <<numerator, denominator>>, in lowest terms

Abs(x) == IF x < 0 THEN -x ELSE x

RECURSIVE GCD(_, _)
GCD(a, b) == IF b = 0 THEN a ELSE GCD(b, a % b)

Rat(n, d) == LET g == GCD(Abs(n), d) IN <<n \div g, d \div g>>

\* --- tensors: a shape and the rows along the leading axes (row-major, the
\* feature axis excluded). A row is a symbolic entry: row k of a trainable
\* table (row |-> k) or the features of a position (pos |-> coordinates).

TableRow(k) == [row |-> k, pos |-> <<>>]
PosRow(p) == [row |-> None, pos |-> p]

Last(s) == s[Len(s)]
Front(s) == SubSeq(s, 1, Len(s) - 1)

RECURSIVE Repeat(_, _)
\* the rows of a tensor repeated along a new leading axis of size b
Repeat(rows, b) == IF b = 0 THEN <<>> ELSE rows \o Repeat(rows, b - 1)

RECURSIVE Unravel(_, _)
\* np.unravel_index(i, dims), C order
Unravel(i, dims) ==
    IF dims = <<>> THEN <<>>
    ELSE LET rest == Prod(Tail(dims))
         IN  <<i \div rest>> \o Unravel(i % rest, Tail(dims))

\* torch.linspace(start=-1.0, end=1.0, steps=n)[j]; one step gives [start]
Linspace(n, j) == IF n = 1 THEN Rat(-1, 1) ELSE Rat(2 * j - (n - 1), n - 1)

\* build_linear_positions(index_dims) at a multi-index: meshgrid of the
\* per-axis linspaces, stacked on the last axis
LinearPosition(index_dims, multi) ==
    [a \in 1..Len(index_dims) |-> Linspace(index_dims[a], multi[a])]

\* _check_or_build_spatial_positions with pos = None: the grid, broadcast over
\* the batch and reshaped to [batch_size, prod(index_dims), -1]
BuildSpatialPositions(index_dims, batch_size) ==
    LET n == Prod(index_dims)
        grid == [i \in 1..n |-> LinearPosition(index_dims, Unravel(i - 1, index_dims))]
    IN  [shape |-> <<batch_size, n, Len(index_dims)>>, rows |-> Repeat(grid, batch_size)]

\* A mutant: the Fourier features never lose the batch axis.
FourierFeaturesBatched(pos, num_bands, max_resolution, concat_pos, sine_only) ==
    LET n == pos.shape[2]
        d == IF Last(pos.shape) > Len(max_resolution) THEN Last(pos.shape)
             ELSE Len(max_resolution)
        w == (IF sine_only THEN 1 ELSE 2) * d * num_bands
    IN  [shape |-> <<pos.shape[1], n, IF concat_pos THEN Last(pos.shape) + w ELSE w>>,
         rows |-> [k \in 1..Len(pos.rows) |-> PosRow(pos.rows[((k - 1) % n) + 1])]]

\* generate_fourier_features: pos is a tensor [batch_size, n, d] whose rows are
\* coordinates. The features are computed from pos[0] alone, as [n, d * num_bands]
\* (d broadcast against len(max_resolution)), doubled unless sine_only; only the
\* concat_pos branch expands them over the batch.
GenerateFourierFeatures(pos, num_bands, max_resolution, concat_pos, sine_only) ==
    LET batch_size == pos.shape[1]
        n == pos.shape[2]
        d == IF Last(pos.shape) > Len(max_resolution) THEN Last(pos.shape)
             ELSE Len(max_resolution)
        per_pos == d * num_bands
        w == IF sine_only THEN per_pos ELSE 2 * per_pos
        feat == [k \in 1..n |-> PosRow(pos.rows[k])]
    IN  IF concat_pos
        THEN [shape |-> <<batch_size, n, Last(pos.shape) + w>>,
              rows |-> [k \in 1..(batch_size * n) |-> PosRow(pos.rows[((k - 1) % n) + 1])]]
        ELSE [shape |-> <<n, w>>, rows |-> feat]

\* PerceiverFourierPositionEncoding.forward(index_dims, batch_size, device, pos)
FourierForward(cfg, index_dims, batch_size, pos_given, pos) ==
    GenerateFourierFeatures(
        IF pos_given THEN pos ELSE BuildSpatialPositions(index_dims, batch_size),
        cfg.num_bands, cfg.max_resolution, cfg.concat_pos, cfg.sine_only)

\* PerceiverTrainablePositionEncoding.forward(batch_size): the table
\* [prod(index_dims), num_channels] expanded over the batch
TrainableForward(cfg, batch_size) ==
    LET n == Prod(cfg.index_dims)
    IN  [shape |-> <<batch_size, n, cfg.num_channels>>,
         rows |-> Repeat([k \in 1..n |-> TableRow(k - 1)], batch_size)]

\* A mutant: the size of the raw positions is always the number of dimensions.
FourierOutputSizeNoPosDim(cfg, pos_dim) ==
    (IF cfg.sine_only THEN 1 ELSE 2) * cfg.num_bands * Len(cfg.max_resolution)
        + (IF cfg.concat_pos THEN Len(cfg.max_resolution) ELSE 0)

\* PerceiverFourierPositionEncoding.output_size(pos_dim); pos_dim = None when
\* the caller passes no argument
FourierOutputSize(cfg, pos_dim) ==
    LET num_dims == Len(cfg.max_resolution)
        encoding_size == cfg.num_bands * num_dims
        doubled == IF ~cfg.sine_only THEN encoding_size * 2 ELSE encoding_size
    IN  IF cfg.concat_pos
        THEN IF pos_dim = None THEN doubled + num_dims ELSE doubled + pos_dim
        ELSE doubled

\* PerceiverTrainablePositionEncoding.output_size
TrainableOutputSize(cfg) == cfg.num_channels

\* torch.reshape(t, [t.shape[0], -1, t.shape[-1]])
ReshapeKeepEnds(t) ==
    [shape |-> <<t.shape[1], Prod(t.shape) \div (t.shape[1] * Last(t.shape)), Last(t.shape)>>,
     rows |-> t.rows]

\* the value of a call that raised
Raised(err) == [status |-> err, shape |-> <<>>, rows |-> <<>>]
Returned(t) == [status |-> "ok", shape |-> t.shape, rows |-> t.rows]

\* lines 1645-1650: the subsampled flat indices unravelled over
\* output_index_dims, mapped to [-1, 1] by -1 + 2 * pos / dims, broadcast over
\* the batch: a tensor [batch_size, K, d]
SubsampledPositions(points, output_index_dims, batch_size) ==
    LET coords == [k \in 1..Len(points) |->
                     LET multi == Unravel(points[k], output_index_dims)
                     IN  [a \in 1..Len(output_index_dims) |->
                            Rat(2 * multi[a] - output_index_dims[a], output_index_dims[a])]]
    IN  [shape |-> <<batch_size, Len(points), Len(output_index_dims)>>,
         rows |-> Repeat(coords, batch_size)]

\* A mutant: the trainable table is indexed by the subsampled points.
DecoderQueryGather(cfg, inputs_shape, has_iwp, subsampled, points) ==
    IF subsampled /\ cfg.type = "trainable"
    THEN Returned([shape |-> <<inputs_shape[1], Len(points), cfg.num_channels>>,
                   rows |-> Repeat([k \in 1..Len(points) |-> TableRow(points[k])],
                                   inputs_shape[1])])
    ELSE IF subsampled
    THEN Returned(ReshapeKeepEnds(FourierFeaturesBatched(
             SubsampledPositions(points, cfg.index_dims, inputs_shape[1]),
             cfg.num_bands, cfg.max_resolution, cfg.concat_pos, cfg.sine_only)))
    ELSE Returned(TrainableForward(cfg, inputs_shape[1]))

\* PerceiverBasicDecoder.decoder_query(inputs, modality_sizes, inputs_without_pos,
\* subsampled_points). The decoder is built with the default project_pos_dim = -1,
\* so positions_projection is the identity.
DecoderQuery(cfg, inputs_shape, has_iwp, subsampled, points) ==
    LET batch_size == inputs_shape[1]
        pos_emb ==
            IF subsampled
            THEN LET pos == SubsampledPositions(points, cfg.index_dims, batch_size)
                     emb == IF cfg.type = "trainable"
                            THEN TrainableForward(cfg, batch_size)
                            ELSE FourierForward(cfg, cfg.index_dims, batch_size, TRUE, pos)
                 IN  ReshapeKeepEnds(emb)
            ELSE LET index_dims == SubSeq(inputs_shape, 3, Len(inputs_shape))
                 IN  IF cfg.type = "trainable"
                     THEN TrainableForward(cfg, batch_size)
                     ELSE FourierForward(cfg, index_dims, batch_size, FALSE, <<>>)
    IN  IF cfg.type = "none" THEN Raised("ValueError")
        ELSE IF cfg.concat_preprocessed_input
        THEN IF ~has_iwp THEN Raised("ValueError")
             ELSE Raised("TypeError")   \* torch.cat(..., div=-1): no such keyword
        ELSE Returned(pos_emb)

\* --- configurations and calls

\* index dimensions: tuples of rank 1 or 2 with entries in 1..MaxDim
IndexDimsSet ==
    {<<a>> : a \in 1..MaxDim} \cup {<<a, b>> : a \in 1..MaxDim, b \in 1..MaxDim}

\* A Basic decoder's position-encoding configuration. index_dims is the
\* decoder's output_index_dims, which is also the index_dims of a trainable
\* table and the rank of a Fourier encoding's max_resolution.
PosConfigs ==
    [type : {"fourier"}, index_dims : IndexDimsSet, max_resolution : {<<>>},
     num_channels : {TableChannels}, num_bands : 1..MaxBands,
     concat_pos : BOOLEAN, sine_only : BOOLEAN, concat_preprocessed_input : BOOLEAN]
    \cup
    [type : {"trainable", "none"}, index_dims : IndexDimsSet, max_resolution : {<<>>},
     num_channels : {TableChannels}, num_bands : {1},
     concat_pos : {TRUE}, sine_only : {FALSE}, concat_preprocessed_input : BOOLEAN]

\* max_resolution has one entry per index dimension
WithResolution(c) == [c EXCEPT !.max_resolution = c.index_dims]

\* strictly increasing index lists of length 1..MaxPoints
RECURSIVE IncreasingLists(_, _, _)
IncreasingLists(lo, hi, len) ==
    IF len = 0 THEN {<<>>}
    ELSE {<<>>} \cup
         UNION {{<<i>> \o t : t \in IncreasingLists(i + 1, hi, len - 1)} : i \in lo..hi}

\* the subsample index lists tried for an index space of n points: every
\* length K in 1..n occurs
SubsampleLists(n) ==
    (IncreasingLists(0, n - 1, MaxPoints) \ {<<>>})
    \cup {[k \in 1..K |-> k - 1] : K \in 1..n}
    \cup (IF n >= 2 THEN {<<n - 1, 0>>} ELSE {})

NoOp == [name |-> "none", batch_size |-> 0, inputs_shape |-> <<>>, has_iwp |-> FALSE,
         subsampled |-> FALSE, points |-> <<>>, pos_dim |-> None, consumer |-> "none"]

PosFrozen ==
    /\ pe_cfg = [type |-> "none", index_dims |-> <<1>>, max_resolution |-> <<1>>,
                 num_channels |-> TableChannels, num_bands |-> 1, concat_pos |-> TRUE,
                 sine_only |-> FALSE, concat_preprocessed_input |-> FALSE]
    /\ pe_op = NoOp
    /\ pe_out = Raised("none")

\* State after PerceiverBasicDecoder.__init__ (build_position_encoding).
PosInit ==
    /\ pe_cfg \in {WithResolution(c) : c \in PosConfigs}
    /\ pe_op = NoOp
    /\ pe_out = Raised("none")

\* The shape of `inputs` as decoder_query reads it: shape[0] is the batch size,
\* shape[2:] the index dimensions of the full query grid. Either a token
\* sequence [B, N, C] or an array laid out over the index dimensions [B, C, *dims].
InputShapes(cfg, b) ==
    {<<b, Prod(cfg.index_dims), TableChannels>>, <<b, TableChannels>> \o cfg.index_dims}

\* decoder_query is called (each behaviour applies one operation to the
\* configuration drawn by Init: the operations are pure)
PosDecoderQuery ==
    /\ pe_op = NoOp
    /\ \E b \in 1..MaxBatch, iwp \in BOOLEAN, sub \in BOOLEAN :
      \E shape \in IF sub THEN {<<b, TableChannels>> \o pe_cfg.index_dims}
                   ELSE InputShapes(pe_cfg, b) :
        \E pts \in IF sub THEN SubsampleLists(Prod(pe_cfg.index_dims)) ELSE {<<>>} :
          /\ pe_op' = [NoOp EXCEPT !.name = "decoder_query", !.batch_size = b,
                         !.inputs_shape = shape, !.has_iwp = iwp,
                         !.subsampled = sub, !.points = pts]
          /\ pe_out' = DecoderQuery(pe_cfg, shape, iwp, sub, pts)
          /\ UNCHANGED <<pe_cfg, notPos>>

\* the position encoding's forward is called with index dimensions and a batch
\* size, and no positions
PosForward ==
    /\ pe_op = NoOp
    /\ pe_cfg.type # "none"
    /\ \E b \in 1..MaxBatch :
         /\ pe_op' = [NoOp EXCEPT !.name = "forward", !.batch_size = b]
         /\ pe_out' = Returned(IF pe_cfg.type = "trainable"
                               THEN TrainableForward(pe_cfg, b)
                               ELSE FourierForward(pe_cfg, pe_cfg.index_dims, b, FALSE, <<>>))
         /\ UNCHANGED <<pe_cfg, notPos>>

\* pos_dim as each consumer of output_size passes it: the image preprocessor
\* (line 2453) passes nothing, the audio preprocessor (line 2632) and the Basic
\* decoder's num_query_channels (line 1628) pass 1.
ConsumerPosDim(consumer) == IF consumer = "image" THEN None ELSE 1

\* output_size is called by one of its consumers; audio index spaces have rank 1
PosOutputSize ==
    /\ pe_op = NoOp
    /\ pe_cfg.type # "none"
    /\ \E consumer \in {"image", "audio", "decoder"} :
         /\ consumer = "audio" => Len(pe_cfg.max_resolution) = 1
         /\ pe_op' = [NoOp EXCEPT !.name = "output_size", !.consumer = consumer,
                         !.pos_dim = ConsumerPosDim(consumer)]
         /\ pe_out' = [status |-> "ok",
                       shape |-> <<IF pe_cfg.type = "trainable"
                                   THEN TrainableOutputSize(pe_cfg)
                                   ELSE FourierOutputSize(pe_cfg, ConsumerPosDim(consumer))>>,
                       rows |-> <<>>]
         /\ UNCHANGED <<pe_cfg, notPos>>

PosNext == PosDecoderQuery \/ PosForward \/ PosOutputSize

\* ------------------------------------------------------------------ multimodal restructuring

\* the modality names of the model; Python's sorted() orders them alphabetically
ModalityNames == {"audio", "image", "label"}

AlphaRank(m) == CASE m = "audio" -> 1 [] m = "image" -> 2 [] m = "label" -> 3

RECURSIVE SortedKeys(_)
\* sorted(d.keys()) for a dict with key set S
SortedKeys(S) ==
    IF S = {} THEN <<>>
    ELSE LET m == CHOOSE x \in S : \A y \in S : AlphaRank(x) <= AlphaRank(y)
         IN  <<m>> \o SortedKeys(S \ {m})

\* the key sequences of a dict's insertion order: sequences without repetition
RECURSIVE Orders(_)
Orders(S) ==
    IF S = {} THEN {<<>>}
    ELSE UNION {{<<m>> \o t : t \in Orders(S \ {m})} : m \in S}

Range(s) == {s[k] : k \in 1..Len(s)}

\* A mutant: the slices are taken in reverse alphabetical order.
RECURSIVE RestructureFromReversed(_, _, _, _)
RestructureFromReversed(keys, modality_sizes, inputs, index) ==
    IF keys = <<>> THEN <<>>
    ELSE LET m == Last(keys)
             size == modality_sizes[m]
         IN  <<[modality |-> m, inp |-> SubSeq(inputs, index + 1, index + size)]>>
             \o RestructureFromReversed(Front(keys), modality_sizes, inputs, index + size)

RECURSIVE RestructureFrom(_, _, _, _)
\* the loop of restructure (lines 1851-1855) over the remaining sorted keys:
\* inp = inputs[:, index : index + size]; index += size
RestructureFrom(keys, modality_sizes, inputs, index) ==
    IF keys = <<>> THEN <<>>
    ELSE LET m == Head(keys)
             size == modality_sizes[m]
         IN  <<[modality |-> m, inp |-> SubSeq(inputs, index + 1, index + size)]>>
             \o RestructureFrom(Tail(keys), modality_sizes, inputs, index + size)

\* restructure(modality_sizes, inputs): the dict modality -> slice of the token axis
Restructure(modality_sizes, inputs) ==
    LET parts == RestructureFrom(SortedKeys(DOMAIN modality_sizes), modality_sizes, inputs, 0)
    IN  [m \in DOMAIN modality_sizes |->
           parts[CHOOSE k \in 1..Len(parts) : parts[k].modality = m].inp]

RECURSIVE CatTokens(_, _)
\* torch.cat([d[k] for k in keys], dim=1)
CatTokens(keys, d) ==
    IF keys = <<>> THEN <<>> ELSE d[Head(keys)] \o CatTokens(Tail(keys), d)

\* A mutant: the modalities are concatenated in configuration order.
MultimodalConcatUnsorted(order, padded) == CatTokens(order, padded)

\* lines 2759-2763: padded_ls = [padded[k] for k in sorted(padded.keys())];
\* concatenated along the token axis. order is the modalities' insertion order.
MultimodalConcat(order, padded) == CatTokens(SortedKeys(DOMAIN padded), padded)

\* A token of modality m: its index in the sub-preprocessor's output and
\* whether the Bernoulli mask replaced it by the modality's mask token.
Token(m, i, masked) == [modality |-> m, index |-> i, masked |-> masked]

\* configurations: the modalities in insertion order and the set of modalities
\* with a masking probability strictly between 0 and 1
RsConfigs ==
    UNION {{[modalities |-> o, masked |-> ms] : o \in Orders(S), ms \in SUBSET S}
           : S \in (SUBSET ModalityNames) \ {{}}}

RsEmpty == [m \in {} |-> <<>>]

RsIdle ==
    /\ rs_pc = "idle"
    /\ rs_padded = RsEmpty
    /\ rs_final = <<>>
    /\ rs_sizes = RsEmpty
    /\ rs_parts = RsEmpty

RsFrozen ==
    /\ rs_cfg = [modalities |-> <<"audio">>, masked |-> {}]
    /\ RsIdle

\* State after PerceiverMultimodalPreprocessor.__init__ .
RsInit ==
    /\ rs_cfg \in RsConfigs
    /\ RsIdle

\* PerceiverMultimodalPreprocessor.forward (batch size 1): every modality's
\* sub-preprocessor returns a token sequence of some length, the sequence is
\* padded (widths are not modelled here) and masked, its length is recorded,
\* and the padded sequences are concatenated in alphabetical order.
RsPreprocess ==
    /\ rs_pc = "idle"
    /\ \E sizes \in [Range(rs_cfg.modalities) -> 1..MaxTokens],
          bits \in [Range(rs_cfg.modalities) -> [1..MaxTokens -> BOOLEAN]] :
         /\ \A m \in DOMAIN sizes : \A i \in 1..MaxTokens :
               bits[m][i] => (i <= sizes[m] /\ m \in rs_cfg.masked)
         /\ LET padded == [m \in DOMAIN sizes |->
                             [i \in 1..sizes[m] |-> Token(m, i, bits[m][i])]]
            IN  /\ rs_padded' = padded
                /\ rs_sizes' = [m \in DOMAIN padded |-> Len(padded[m])]
                /\ rs_final' = MultimodalConcat(rs_cfg.modalities, padded)
    /\ rs_pc' = "preprocessed"
    /\ UNCHANGED <<rs_cfg, rs_parts, notRs>>

\* restructure is applied to the concatenated sequence with the recorded sizes
RsRestructure ==
    /\ rs_pc = "preprocessed"
    /\ rs_parts' = [m \in DOMAIN rs_sizes |-> Restructure(rs_sizes, rs_final)[m]]
    /\ rs_pc' = "restructured"
    /\ UNCHANGED <<rs_cfg, rs_padded, rs_final, rs_sizes, notRs>>

RsNext == RsPreprocess \/ RsRestructure

\* ------------------------------------------------------------------ PerceiverSelfAttention.__init__

\* an optional channel count: None or 1..MaxChannels
OptChannels == {None} \cup (1..MaxChannels)

AttnArgs ==
    [is_cross_attention : BOOLEAN, qk_channels : OptChannels, v_channels : OptChannels,
     num_heads : 1..MaxHeads, q_dim : 1..MaxChannels, kv_dim : 1..MaxChannels]

\* lines 200-201: qk_channels defaults to q_dim
ResolvedQK(a) == IF a.qk_channels = None THEN a.q_dim ELSE a.qk_channels

\* lines 204-205: v_channels defaults to the resolved qk_channels
ResolvedV(a) == IF a.v_channels = None THEN ResolvedQK(a) ELSE a.v_channels

NoAttention ==
    [status |-> "none", num_heads |-> 0, qk_channels |-> 0, v_channels |-> 0,
     qk_channels_per_head |-> 0, v_channels_per_head |-> 0]

\* A mutant: only qk_channels is checked against num_heads.
SelfAttentionInitNoVCheck(a) ==
    IF ResolvedQK(a) % a.num_heads # 0
    THEN [NoAttention EXCEPT !.status = "ValueError"]
    ELSE [status |-> "ok", num_heads |-> a.num_heads,
          qk_channels |-> ResolvedQK(a), v_channels |-> ResolvedV(a),
          qk_channels_per_head |-> ResolvedQK(a) \div a.num_heads,
          v_channels_per_head |-> ResolvedV(a) \div a.num_heads]

\* PerceiverSelfAttention.__init__ (lines 186-225): the module built, or the
\* ValueError raised by the divisibility checks of lines 206-209
SelfAttentionInit(a) ==
    LET qk_channels == ResolvedQK(a)
        v_channels == ResolvedV(a)
    IN  IF qk_channels % a.num_heads # 0 THEN [NoAttention EXCEPT !.status = "ValueError"]
        ELSE IF v_channels % a.num_heads # 0 THEN [NoAttention EXCEPT !.status = "ValueError"]
        ELSE [status |-> "ok", num_heads |-> a.num_heads,
              qk_channels |-> qk_channels, v_channels |-> v_channels,
              qk_channels_per_head |-> qk_channels \div a.num_heads,
              v_channels_per_head |-> v_channels \div a.num_heads]

AtFrozen ==
    /\ at_args = [is_cross_attention |-> FALSE, qk_channels |-> None, v_channels |-> None,
                  num_heads |-> 1, q_dim |-> 1, kv_dim |-> 1]
    /\ at_obj = NoAttention

\* the arguments of a construction that has not run yet
AtInit ==
    /\ at_args \in AttnArgs
    /\ at_obj = NoAttention

\* PerceiverSelfAttention(config, is_cross_attention, qk_channels, v_channels,
\* num_heads, q_dim, kv_dim) is constructed
AtConstruct ==
    /\ at_obj.status = "none"
    /\ at_obj' = SelfAttentionInit(at_args)
    /\ UNCHANGED <<at_args, notAt>>

AtNext == AtConstruct

\* ------------------------------------------------------------------ layers (shapes)

\* The result of a shape computation: a shape, or the error raised.
ShapeOk(shape) == [status |-> "ok", shape |-> shape]
ShapeErr(err) == [status |-> err, shape |-> <<>>]

WithLast(shape, w) == Front(shape) \o <<w>>

\* nn.Linear(in_features, out_features) applied to a tensor of this shape
Linear(in_features, out_features, shape) ==
    IF Last(shape) = in_features THEN ShapeOk(WithLast(shape, out_features))
    ELSE ShapeErr("RuntimeError")

\* nn.LayerNorm(width) applied to a tensor of this shape
LayerNorm(width, shape) ==
    IF Last(shape) = width THEN ShapeOk(shape) ELSE ShapeErr("RuntimeError")

\* a + b for two tensors that differ at most in the last axis (broadcasting)
AddLast(a, b) ==
    IF Last(a) = Last(b) THEN ShapeOk(a)
    ELSE IF Last(a) = 1 THEN ShapeOk(b)
    ELSE IF Last(b) = 1 THEN ShapeOk(a)
    ELSE ShapeErr("RuntimeError")

\* the arguments of PerceiverLayer / PerceiverAttention
LayerArgs(is_cross, qk, v, heads, q_dim, kv_dim, wf, residual) ==
    [is_cross_attention |-> is_cross, qk_channels |-> qk, v_channels |-> v,
     num_heads |-> heads, q_dim |-> q_dim, kv_dim |-> kv_dim,
     widening_factor |-> wf, use_query_residual |-> residual]

\* PerceiverAttention.__init__ (lines 359-373): the qk_channels and v_channels
\* handed to PerceiverSelfAttention; shape_for_attention is
\* config.cross_attention_shape_for_attention
AttentionChannels(l, shape_for_attention) ==
    IF l.is_cross_attention /\ l.qk_channels = None
    THEN [l EXCEPT !.qk_channels = IF shape_for_attention = "q" THEN l.q_dim ELSE l.kv_dim]
    ELSE LET qk == IF l.qk_channels = None THEN l.q_dim ELSE l.qk_channels
         IN  [l EXCEPT !.qk_channels = qk,
                       !.v_channels = IF l.v_channels = None THEN qk ELSE l.v_channels]

\* PerceiverLayer.__init__: the layer built (its resolved widths), or the
\* ValueError of PerceiverSelfAttention.__init__
LayerInit(l, shape_for_attention) ==
    LET a == AttentionChannels(l, shape_for_attention)
        self == SelfAttentionInit([is_cross_attention |-> a.is_cross_attention,
                                   qk_channels |-> a.qk_channels, v_channels |-> a.v_channels,
                                   num_heads |-> a.num_heads, q_dim |-> a.q_dim,
                                   kv_dim |-> a.kv_dim])
    IN  [status |-> self.status,
         is_cross_attention |-> l.is_cross_attention,
         q_dim |-> l.q_dim, kv_dim |-> l.kv_dim,
         qk_channels |-> self.qk_channels, v_channels |-> self.v_channels,
         \* line 384-390: the width of the output projection
         output_channels |-> IF l.is_cross_attention THEN l.q_dim ELSE a.v_channels,
         widening_factor |-> l.widening_factor,
         use_query_residual |-> l.use_query_residual]

\* the first result of the sequence that is an error, or its last result
FirstFailure(rs) ==
    IF \A i \in 1..Len(rs) : rs[i].status = "ok" THEN rs[Len(rs)]
    ELSE rs[CHOOSE i \in 1..Len(rs) :
                /\ rs[i].status # "ok"
                /\ \A j \in 1..(i - 1) : rs[j].status = "ok"]

\* PerceiverSelfAttention.forward and PerceiverSelfOutput.forward on shapes:
\* layernorm1 on the queries, layernorm2 on the inputs of a cross-attention,
\* the query, key and value projections (keys and values come from kvsrc: the
\* inputs in cross-attention, the hidden states otherwise), and the output
\* projection of the context [B, M, v_channels]
AttentionForward(layer, hidden, kvsrc) ==
    FirstFailure(<<
        LayerNorm(layer.q_dim, hidden),
        IF layer.is_cross_attention THEN LayerNorm(layer.kv_dim, kvsrc) ELSE ShapeOk(kvsrc),
        Linear(layer.q_dim, layer.qk_channels, hidden),
        Linear(layer.kv_dim, layer.qk_channels, kvsrc),
        Linear(layer.kv_dim, layer.v_channels, kvsrc),
        Linear(layer.v_channels, layer.output_channels, WithLast(hidden, layer.v_channels))>>)

\* PerceiverAttention.forward, lines 438-439: the optional query residual
QueryResidual(layer, hidden, out) ==
    IF out.status # "ok" THEN out
    ELSE IF layer.use_query_residual THEN AddLast(out.shape, hidden)
    ELSE out

\* PerceiverMLP.dense1, nn.Linear(input_size, widening_factor * input_size),
\* applied to a tensor of this shape (line 458)
MLPDense1(layer, shape) ==
    Linear(layer.q_dim, layer.widening_factor * layer.q_dim, shape)

\* PerceiverMLP.forward on a tensor of this shape: dense1 is
\* nn.Linear(input_size, widening_factor * input_size), dense2 is
\* nn.Linear(input_size, input_size)
MLPForward(layer, shape) ==
    IF Last(shape) # layer.q_dim THEN ShapeErr("RuntimeError")
    ELSE Linear(layer.q_dim, layer.q_dim, WithLast(shape, layer.widening_factor * layer.q_dim))

\* PerceiverLayer.feed_forward_chunk: layernorm, then the MLP
FeedForwardChunk(layer, shape) ==
    IF Last(shape) # layer.q_dim THEN ShapeErr("RuntimeError")
    ELSE MLPForward(layer, shape)

\* line 520: layer_output + attention_output
LayerResidual(mlp, shape) ==
    IF mlp.status # "ok" THEN mlp ELSE AddLast(mlp.shape, shape)

\* PerceiverLayer.forward, lines 512-526, on the result of the attention
LayerOutput(layer, attention_output) ==
    IF attention_output.status # "ok" THEN attention_output
    ELSE LayerResidual(FeedForwardChunk(layer, attention_output.shape), attention_output.shape)

\* PerceiverLayer.forward on shapes: hidden_states [B, M, q_dim] and, for
\* cross-attention, inputs [B, N, kv_dim]. Returns [B, M, q_dim], or the error
\* of the first ill-formed operation.
LayerForward(layer, hidden, inputs) ==
    LayerOutput(layer,
        QueryResidual(layer, hidden,
            AttentionForward(layer, hidden,
                             IF layer.is_cross_attention THEN inputs ELSE hidden)))

\* --- attention masks

NoMask == [present |-> FALSE, vals |-> <<>>]
Mask(vals) == [present |-> TRUE, vals |-> vals]

\* torch.ones((batch_size, seq_length))
OnesMask(b, n) == Mask([i \in 1..b |-> [k \in 1..n |-> 1]])

\* invert_attention_mask (of the library's ModuleUtilsMixin): the additive
\* bias broadcastable to [batch, heads, query_len, key_len], zero where the
\* mask attends, large-negative where it suppresses
InvertAttentionMask(m) ==
    Mask([i \in 1..Len(m.vals) |->
            [k \in 1..Len(m.vals[i]) |-> (1 - m.vals[i][k]) * LargeNegative]])

\* A mutant: the mask applied to the scores is always the attention_mask argument.
AppliedMaskIgnoringInputs(is_cross, attention_mask, inputs_mask) == attention_mask

\* PerceiverSelfAttention.forward, lines 254-267 and 300-302: the additive
\* mask applied to the scores; in cross-attention it is inputs_mask
AppliedMask(is_cross, attention_mask, inputs_mask) ==
    IF is_cross THEN inputs_mask ELSE attention_mask

\* ------------------------------------------------------------------ task models

\* PerceiverImagePreprocessor.in_channels (default)
ImageInChannels == 3
\* PerceiverForImageClassification: out_channels of the 1x1 convolution, also
\* num_channels of the trainable table and project_pos_dim
ImageOutChannels == 256
\* PerceiverImagePreprocessor.out_channels (default): the channels of Conv2DDownsample
ConvOutChannels == 64
\* PerceiverForImageClassificationConvProcessing: num_bands of the Fourier positions
ConvNumBands == 64
\* PerceiverForMaskedLM: qk_channels = 8 * 32 of the decoder
MLMDecoderQKChannels == 256
\* PerceiverForMaskedLM: num_heads of the decoder
MLMDecoderHeads == 8

\* A mutant: only the self-attention head count is checked.
EncoderInitCheckSelfOnly(cfg) ==
    IF cfg.d_latents % cfg.num_self_attention_heads # 0 THEN "ValueError" ELSE "ok"

\* PerceiverEncoder.__init__, lines 545-555: the head counts must divide d_latents
EncoderInitCheck(cfg) ==
    IF cfg.d_latents % cfg.num_self_attention_heads # 0 THEN "ValueError"
    ELSE IF cfg.d_latents % cfg.num_cross_attention_heads # 0 THEN "ValueError"
    ELSE "ok"

\* PerceiverEncoder.__init__, lines 558-568
EncoderCrossLayer(cfg) ==
    LayerInit(LayerArgs(TRUE, cfg.qk_channels, cfg.v_channels, cfg.num_cross_attention_heads,
                        cfg.d_latents, cfg.d_model, cfg.cross_attention_widening_factor,
                        cfg.use_query_residual),
              cfg.cross_attention_shape_for_attention)

\* PerceiverEncoder.__init__, lines 574-583; PerceiverLayer's default
\* use_query_residual = True
EncoderSelfLayer(cfg) ==
    LayerInit(LayerArgs(FALSE, cfg.qk_channels, cfg.v_channels, cfg.num_self_attention_heads,
                        cfg.d_latents, cfg.d_latents, cfg.self_attention_widening_factor,
                        TRUE),
              cfg.cross_attention_shape_for_attention)

\* The arguments with which the task model builds its PerceiverBasicDecoder
\* (the classification decoder wraps one with output_index_dims = 1).
DecoderArgs(cfg) ==
    IF cfg.task = "mlm"
    THEN [output_num_channels |-> cfg.d_latents,
          output_index_dims |-> <<cfg.max_position_embeddings>>,
          num_channels |-> cfg.d_model,
          qk_channels |-> MLMDecoderQKChannels, v_channels |-> cfg.d_model,
          num_heads |-> MLMDecoderHeads,
          use_query_residual |-> FALSE, final_project |-> FALSE,
          table_channels |-> cfg.d_model,
          table_index_dims |-> <<cfg.max_position_embeddings>>]
    ELSE [output_num_channels |-> cfg.num_labels,
          output_index_dims |-> <<1>>,
          num_channels |-> cfg.d_latents,
          qk_channels |-> None, v_channels |-> None,
          num_heads |-> 1,
          use_query_residual |-> TRUE, final_project |-> TRUE,
          table_channels |-> cfg.d_latents,
          table_index_dims |-> <<1>>]

\* PerceiverBasicDecoder.__init__, lines 1606-1616: decoding_cross_attention
\* (widening_factor defaults to 1)
DecoderCrossLayer(cfg) ==
    LET d == DecoderArgs(cfg)
    IN  LayerInit(LayerArgs(TRUE, d.qk_channels, d.v_channels, d.num_heads,
                            d.num_channels, cfg.d_latents, 1, d.use_query_residual),
                  cfg.cross_attention_shape_for_attention)

\* the position-encoding configuration of the task model's decoder
DecoderPosConfig(cfg) ==
    LET d == DecoderArgs(cfg)
    IN  [type |-> "trainable", index_dims |-> d.table_index_dims,
         max_resolution |-> <<>>, num_channels |-> d.table_channels, num_bands |-> 1,
         concat_pos |-> TRUE, sine_only |-> FALSE, concat_preprocessed_input |-> FALSE]

\* PerceiverModel.__init__, lines 744-746: the components the model was given
HasDecoder(cfg) == cfg.decoder # "none"
HasPostprocessor(cfg) == cfg.postprocessor # "none"
HasPreprocessor(cfg) ==
    cfg.task \in {"mlm", "image_classification", "image_classification_conv"}

\* the model can be constructed: no constructor raises
Constructible(cfg) ==
    /\ EncoderInitCheck(cfg) = "ok"
    /\ EncoderCrossLayer(cfg).status = "ok"
    /\ EncoderSelfLayer(cfg).status = "ok"
    /\ HasDecoder(cfg) => DecoderCrossLayer(cfg).status = "ok"

\* PerceiverTextPreprocessor.forward on token ids [B, L]: token embeddings
\* plus the position embeddings of arange(L), looked up in a table of
\* max_position_embeddings rows
TextPreprocess(cfg, inputs) ==
    IF inputs[2] > cfg.max_position_embeddings THEN ShapeErr("IndexError")
    ELSE ShapeOk(<<inputs[1], inputs[2], cfg.d_model>>)

\* nn.Conv2d(in_channels, out_channels, kernel_size=1, stride=s) on [B, C, H, W]
Conv1x1(in_channels, out_channels, s, inputs) ==
    IF inputs[2] # in_channels THEN ShapeErr("RuntimeError")
    ELSE ShapeOk(<<inputs[1], out_channels,
                   ((inputs[3] - 1) \div s) + 1, ((inputs[4] - 1) \div s) + 1>>)

\* torch.cat([a, b], dim=-1): every axis but the last must agree
CatLast(a, b) ==
    IF Front(a) = Front(b) THEN ShapeOk(WithLast(a, Last(a) + Last(b)))
    ELSE ShapeErr("RuntimeError")

\* what a preprocessor returns: (inputs, modality_sizes = None, inputs_without_pos)
Preprocessed(r, without_pos) ==
    [status |-> r.status, with_pos |-> r.shape,
     without_pos |-> IF r.status = "ok" THEN without_pos ELSE <<>>]

\* torch.moveaxis(inputs, 1, -1) on [B, C, H, W]
MoveChannelsLast(shape) == <<shape[1], shape[3], shape[4], shape[2]>>

\* _build_network_inputs, lines 2481-2487: the index dimensions flattened
FlattenIndexDims(shape) ==
    <<shape[1], Prod(SubSeq(shape, 2, Len(shape) - 1)), Last(shape)>>

\* _build_network_inputs as PerceiverForImageClassification configures it: the
\* trainable table [B, image_size ** 2, num_channels], projected from
\* out_channels to project_pos_dim, is concatenated to the flattened inputs
BuildNetworkInputs(cfg, flat) ==
    Preprocessed(
        CatLast(flat,
                Linear(ImageOutChannels, ImageOutChannels,
                       TrainableForward([index_dims |-> <<cfg.image_size * cfg.image_size>>,
                                         num_channels |-> ImageOutChannels],
                                        flat[1]).shape).shape),
        flat)

\* PerceiverImagePreprocessor.forward, lines 2519-2567, on the result of the
\* 1x1 convolution
ImagePreprocessFrom(cfg, conv) ==
    IF conv.status # "ok" THEN Preprocessed(conv, <<>>)
    ELSE BuildNetworkInputs(cfg, FlattenIndexDims(MoveChannelsLast(conv.shape)))

\* PerceiverImagePreprocessor.forward as PerceiverForImageClassification
\* configures it: conv1x1 with spatial_downsample 1, channels moved last,
\* flattened to [B, H*W, out_channels], concatenated with the positions
ImagePreprocess(cfg, inputs) ==
    ImagePreprocessFrom(cfg, Conv1x1(ImageInChannels, ImageOutChannels, 1, inputs))

\* Conv2dSamePadding(kernel_size=7, stride=2) on [B, C, H, W]: zero padding
\* of 3 on every side, so H becomes (H + 6 - 7) // 2 + 1
Conv2dSamePadding(in_channels, out_channels, inputs) ==
    IF inputs[2] # in_channels THEN ShapeErr("RuntimeError")
    ELSE ShapeOk(<<inputs[1], out_channels,
                   ((inputs[3] - 1) \div 2) + 1, ((inputs[4] - 1) \div 2) + 1>>)

\* nn.MaxPool2d(kernel_size=3, stride=2) on [B, C, H, W]
MaxPool2d(conv) ==
    IF conv.status # "ok" THEN conv
    ELSE IF conv.shape[3] < 3 \/ conv.shape[4] < 3 THEN ShapeErr("RuntimeError")
    ELSE ShapeOk(<<conv.shape[1], conv.shape[2],
                   ((conv.shape[3] - 3) \div 2) + 1, ((conv.shape[4] - 3) \div 2) + 1>>)

\* Conv2DDownsample.forward on shapes: the convolution, batch normalisation
\* and ReLU (which keep the shape), and the max pooling
Conv2DDownsample(inputs) ==
    MaxPool2d(Conv2dSamePadding(ImageInChannels, ConvOutChannels, inputs))

\* the buffers of a BatchNorm2d after construction
BatchNormInit == [num_batches_tracked |-> 0, running_stats |-> <<>>]

\* A mutant: the running statistics are updated in every mode.
BatchNormBuffersAlways(training, buffers, batch) ==
    [num_batches_tracked |-> buffers.num_batches_tracked + 1,
     running_stats |-> Append(buffers.running_stats, batch)]

\* nn.BatchNorm2d.forward (line 2034), its buffers: in training mode it folds
\* the statistics of the batch into running_mean / running_var and counts
\* the batch; in evaluation mode it leaves them alone
BatchNormBuffers(training, buffers, batch) ==
    IF training
    THEN [num_batches_tracked |-> buffers.num_batches_tracked + 1,
          running_stats |-> Append(buffers.running_stats, batch)]
    ELSE buffers

\* nn.BatchNorm2d.forward, the statistics its output is normalised by: those
\* of the batch in training mode, the running statistics in evaluation mode
BatchNormStatistics(training, buffers) ==
    IF training THEN [source |-> "batch", stats |-> <<>>]
    ELSE [source |-> "running", stats |-> buffers.running_stats]

\* no batch normalisation took part in the result
NoStatistics == [source |-> "none", stats |-> <<>>]

\* the Fourier positions of PerceiverForImageClassificationConvProcessing
ConvFourierConfig ==
    [num_bands |-> ConvNumBands, max_resolution |-> <<56, 56>>,
     concat_pos |-> TRUE, sine_only |-> FALSE]

\* _build_network_inputs with Fourier positions over the index dimensions of
\* the feature map x [B, H, W, C], concatenated to the flattened features
BuildFourierInputs(x) ==
    Preprocessed(
        CatLast(FlattenIndexDims(x),
                FourierForward(ConvFourierConfig, SubSeq(x, 2, Len(x) - 1), x[1],
                               FALSE, <<>>).shape),
        FlattenIndexDims(x))

\* PerceiverImagePreprocessor.forward with prep_type = "conv"
ConvPreprocessFrom(conv) ==
    IF conv.status # "ok" THEN Preprocessed(conv, <<>>)
    ELSE BuildFourierInputs(MoveChannelsLast(conv.shape))

\* self.input_preprocessor(inputs) of the task model
Preprocess(cfg, inputs) ==
    IF cfg.task = "mlm" THEN Preprocessed(TextPreprocess(cfg, inputs), <<>>)
    ELSE IF cfg.task = "image_classification_conv"
    THEN ConvPreprocessFrom(Conv2DDownsample(inputs))
    ELSE ImagePreprocess(cfg, inputs)

\* whether the preprocessor's batch normalisation sees a batch: the
\* convolution before it succeeded
BatchNormRuns(cfg, inputs) ==
    /\ cfg.task = "image_classification_conv"
    /\ Conv2dSamePadding(ImageInChannels, ConvOutChannels, inputs).status = "ok"

\* PerceiverEmbeddings.forward: the latents expanded over the batch
Embeddings(cfg, batch_size) == <<batch_size, cfg.num_latents, cfg.d_latents>>

\* the attention probabilities a layer returns: [B, heads, M, N]
AttentionMap(heads, hidden, kv) == <<hidden[1], heads, hidden[2], kv[2]>>

\* lines 628-642: one iteration of the inner loop on state st, out being the
\* layer's result
SelfAttendStep(cfg, st, out) ==
    [status |-> out.status,
     last |-> IF out.status = "ok" THEN out.shape ELSE st.last,
     mask |-> st.mask,
     hidden_states |-> IF st.hidden_states.present
                       THEN TupleAdd(st.hidden_states, st.last)
                       ELSE st.hidden_states,
     attentions |-> IF st.attentions.present /\ out.status = "ok"
                    THEN TupleAdd(st.attentions,
                                  AttentionMap(cfg.num_self_attention_heads, st.last, st.last))
                    ELSE st.attentions,
     cross_attentions |-> st.cross_attentions,
     extra |-> st.extra]

\* lines 644-645: the end of a block
BlockEnd(st) ==
    [st EXCEPT !.hidden_states =
        IF st.hidden_states.present THEN TupleAdd(st.hidden_states, st.last)
        ELSE st.hidden_states]

RECURSIVE SelfAttendLoop(_, _, _, _)
\* lines 624-645: the remaining iterations of the two nested loops, from
\* block b (0-based) and layer i (0-based), on state st
SelfAttendLoop(cfg, b, i, st) ==
    IF st.status # "ok" \/ b = cfg.num_blocks THEN st
    ELSE IF i = cfg.num_self_attends_per_block
    THEN SelfAttendLoop(cfg, b + 1, 0, BlockEnd(st))
    ELSE SelfAttendLoop(cfg, b, i + 1,
             SelfAttendStep(cfg, st, LayerForward(EncoderSelfLayer(cfg), st.last, <<>>)))

\* lines 599-621: the cross-attention over the inputs, cross being its result
EncoderStart(cfg, hidden, inputs, applied, output_attentions, output_hidden_states, cross) ==
    [status |-> cross.status,
     last |-> cross.shape,
     mask |-> applied,
     hidden_states |-> IF output_hidden_states THEN EmptyTuple ELSE NoTuple,
     attentions |-> IF output_attentions THEN EmptyTuple ELSE NoTuple,
     cross_attentions |->
         IF output_attentions
         THEN TupleAdd(EmptyTuple, AttentionMap(cfg.num_cross_attention_heads, hidden, inputs))
         ELSE NoTuple,
     extra |-> <<>>]

\* PerceiverEncoder.forward on shapes. `mask` of the result is the additive mask
\* the cross-attention applied to its scores; the self-attention layers get
\* attention_mask and no inputs. `extra` holds what PerceiverModel.forward
\* appends to the tuple form (line 860).
EncoderForward(cfg, hidden, attention_mask, inputs, inputs_mask, output_attentions, output_hidden_states) ==
    SelfAttendLoop(cfg, 0, 0,
        EncoderStart(cfg, hidden, inputs, AppliedMask(TRUE, attention_mask, inputs_mask),
                     output_attentions, output_hidden_states,
                     LayerForward(EncoderCrossLayer(cfg), hidden, inputs)))

\* A mutant: the token axis is kept.
FirstTokenKept(shape) == shape

\* line 1752, logits[:, 0, :]: the token axis of [B, M, C] is removed
FirstToken(shape) == <<shape[1], shape[3]>>

\* PerceiverBasicDecoder.forward, line 1713: the final layer, nn.Linear or
\* nn.Identity
FinalLayer(d, out) ==
    IF out.status # "ok" THEN out
    ELSE IF d.final_project THEN Linear(d.num_channels, d.output_num_channels, out.shape)
    ELSE out

\* PerceiverClassificationDecoder.forward, line 1752
ClassificationLogits(cfg, final) ==
    IF final.status = "ok" /\ cfg.decoder = "classification"
    THEN ShapeOk(FirstToken(final.shape))
    ELSE final

\* the decoder's result: its logits, the additive mask its cross-attention
\* applied, and its cross-attention maps
DecoderOutput(logits, mask, cross_attentions) ==
    [status |-> logits.status, logits |-> logits.shape, mask |-> mask,
     cross_attentions |-> cross_attentions]

\* PerceiverBasicDecoder.forward / PerceiverClassificationDecoder.forward on
\* shapes: the cross-attention of the query over z, the final layer, and for
\* classification logits[:, 0, :]. The Basic decoder passes attention_mask =
\* query_mask and inputs_mask = None to its cross-attention; the
\* classification decoder passes the Basic decoder no query_mask.
DecoderForward(cfg, query, z, query_mask, output_attentions) ==
    DecoderOutput(
        ClassificationLogits(cfg,
            FinalLayer(DecoderArgs(cfg), LayerForward(DecoderCrossLayer(cfg), query, z))),
        AppliedMask(TRUE,
                    IF cfg.decoder = "classification" THEN NoMask ELSE query_mask,
                    NoMask),
        IF output_attentions
        THEN TupleAdd(EmptyTuple, AttentionMap(DecoderArgs(cfg).num_heads, query, z))
        ELSE NoTuple)

\* PerceiverEmbeddingDecoder.forward: hidden_states [B, T, d_model] times the
\* transposed embedding matrix [d_model, vocab_size]
EmbeddingDecoder(cfg, hidden) ==
    IF Len(hidden) # 3 THEN ShapeErr("ValueError")
    ELSE IF hidden[3] # cfg.d_model THEN ShapeErr("RuntimeError")
    ELSE ShapeOk(<<hidden[1], hidden[2], cfg.vocab_size>>)

\* ------------------------------------------------------------------ PerceiverModel.forward

\* The configurations of the models this specification runs:
\* PerceiverForMaskedLM, PerceiverForImageClassification,
\* PerceiverForImageClassificationConvProcessing and a bare
\* PerceiverModel without preprocessor, constructed with or without a
\* PerceiverClassificationDecoder and with or without a
\* PerceiverProjectionPostprocessor. The output flags are the config's
\* defaults; the calls pass None for them.
FwConfigShapes ==
    [task : {"mlm"}, d_model : {8}, max_position_embeddings : 1..MaxSeq,
     image_size : {1}, num_labels : {1}, self_attention_widening_factor : {1, 2},
     decoder : {"basic"}, postprocessor : {"none"}]
    \cup
    [task : {"image_classification"}, d_model : {8, 512}, max_position_embeddings : {1},
     image_size : 1..MaxImage, num_labels : {3}, self_attention_widening_factor : {1, 2},
     decoder : {"classification"}, postprocessor : {"none"}]
    \cup
    [task : {"image_classification_conv"}, d_model : {322}, max_position_embeddings : {1},
     image_size : {1}, num_labels : {3}, self_attention_widening_factor : {1, 2},
     decoder : {"classification"}, postprocessor : {"none"}]
    \cup
    [task : {"bare"}, d_model : {8}, max_position_embeddings : {1},
     image_size : {1}, num_labels : {1}, self_attention_widening_factor : {1, 2},
     decoder : {"none", "classification"}, postprocessor : {"none", "projection"}]

FwConfigOf(s, blocks, oa, ohs, rd) ==
    [task |-> s.task, d_model |-> s.d_model, d_latents |-> 4, num_latents |-> 2,
     num_blocks |-> blocks, num_self_attends_per_block |-> 1,
     num_self_attention_heads |-> 2, num_cross_attention_heads |-> 1,
     qk_channels |-> None, v_channels |-> None,
     cross_attention_widening_factor |-> 1,
     self_attention_widening_factor |-> s.self_attention_widening_factor,
     use_query_residual |-> TRUE, cross_attention_shape_for_attention |-> "kv",
     vocab_size |-> 5, max_position_embeddings |-> s.max_position_embeddings,
     image_size |-> s.image_size, num_labels |-> s.num_labels,
     decoder |-> s.decoder, postprocessor |-> s.postprocessor,
     output_attentions |-> oa, output_hidden_states |-> ohs, use_return_dict |-> rd]

FwConfigs ==
    {c \in {FwConfigOf(s, blocks, oa, ohs, rd) :
                s \in FwConfigShapes, blocks \in 1..2,
                oa \in BOOLEAN, ohs \in BOOLEAN, rd \in BOOLEAN} : Constructible(c)}

\* the modes the module can be in when it is called (nn.Module.train / eval);
\* only the batch normalisation of the convolutional front-end depends on it,
\* the dropout probabilities being 0
FwModes(cfg) == IF cfg.task = "image_classification_conv" THEN BOOLEAN ELSE {FALSE}

\* the parameters and buffers after construction: the latent array (line 174)
\* and the buffers of the front-end's BatchNorm2d (line 2028)
FwModuleInit(training) ==
    [training |-> training, latents |-> "initial", batchnorm |-> BatchNormInit]

\* the shapes of the `inputs` argument a call may pass
FwInputShapes(cfg) ==
    IF cfg.task = "mlm"
    THEN {<<b, l>> : b \in 1..MaxBatch, l \in 1..MaxSeq}
    ELSE IF cfg.task = "image_classification"
    THEN {<<b, ImageInChannels, h, w>> : b \in 1..MaxBatch, h \in 1..MaxImage, w \in 1..MaxImage}
    ELSE IF cfg.task = "image_classification_conv"
    THEN {<<b, ImageInChannels, h, w>> : b \in 1..MaxBatch, h \in {4, 5, 9}, w \in {5, 9}}
    ELSE {<<b, l, c>> : b \in 1..MaxBatch, l \in 1..MaxSeq, c \in {cfg.d_model, cfg.d_model + 1}}

\* the number of tokens the encoder will see for this input
FwTokens(cfg, inputs) ==
    IF cfg.task = "image_classification" THEN inputs[3] * inputs[4]
    ELSE IF cfg.task = "image_classification_conv"
    THEN IF Conv2DDownsample(inputs).status = "ok"
         THEN Conv2DDownsample(inputs).shape[3] * Conv2DDownsample(inputs).shape[4]
         ELSE 1
    ELSE inputs[2]

\* the attention_mask arguments a call may pass: None, all ones, or all ones
\* but for the last token of the last batch row
FwMasks(b, n) ==
    {NoMask, OnesMask(b, n),
     Mask([i \in 1..b |-> [k \in 1..n |-> IF i = b /\ k = n THEN 0 ELSE 1]])}

FwNoArgs == [inputs |-> <<>>, attention_mask |-> NoMask]

\* the locals of forward before its first statement
FwNoLocals ==
    [inputs |-> <<>>, inputs_without_pos |-> <<>>, input_shape |-> <<>>,
     extended_attention_mask |-> NoMask, head_mask |-> <<>>, embedding_output |-> <<>>,
     encoder_outputs |-> [status |-> "none"], sequence_output |-> <<>>,
     decoder_query |-> <<>>, logits |-> <<>>, decoder_mask |-> NoMask,
     decoder_cross_attentions |-> NoTuple, normalized_by |-> NoStatistics]

\* no call has returned
FwNoOutput == [status |-> "none", form |-> "none", logits |-> <<>>, items |-> <<>>,
               outputs |-> <<>>,
               encoder_mask |-> NoMask, decoder_mask |-> NoMask,
               normalized_by |-> NoStatistics]

FwNoFirst == [attention_mask |-> NoMask, out |-> FwNoOutput]

FwFrozen ==
    /\ fw_cfg = FwConfigOf([task |-> "bare", d_model |-> 8, max_position_embeddings |-> 1,
                            image_size |-> 1, num_labels |-> 1,
                            self_attention_widening_factor |-> 1,
                            decoder |-> "none", postprocessor |-> "none"],
                           1, FALSE, FALSE, TRUE)
    /\ fw_pc = "idle"
    /\ fw_run = 0
    /\ fw_args = FwNoArgs
    /\ fw_loc = FwNoLocals
    /\ fw_out = FwNoOutput
    /\ fw_first = FwNoFirst
    /\ fw_trace = <<>>
    /\ fw_module = FwModuleInit(FALSE)

\* a constructed model that has not been called
FwInit ==
    /\ fw_cfg \in FwConfigs
    /\ fw_pc = "idle"
    /\ fw_run = 0
    /\ fw_args = FwNoArgs
    /\ fw_loc = FwNoLocals
    /\ fw_out = FwNoOutput
    /\ fw_first = FwNoFirst
    /\ fw_trace = <<>>
    /\ \E training \in FwModes(fw_cfg) : fw_module = FwModuleInit(training)

\* forward raises err: the call ends with no output
FwRaise(err) ==
    /\ fw_pc' = "raised"
    /\ fw_out' = [FwNoOutput EXCEPT !.status = err]
    /\ fw_loc' = fw_loc

\* model(inputs, attention_mask) is called on a model not yet called
FwCall ==
    /\ fw_pc = "idle"
    /\ fw_run = 0
    /\ \E inputs \in FwInputShapes(fw_cfg) :
         \E m \in FwMasks(inputs[1], FwTokens(fw_cfg, inputs)) :
            fw_args' = [inputs |-> inputs, attention_mask |-> m]
    /\ fw_run' = 1
    /\ fw_pc' = "preprocess"
    /\ fw_trace' = <<>>
    /\ UNCHANGED <<fw_cfg, fw_loc, fw_out, fw_first, fw_module, notFw>>

\* the first call has ended; the model is called again on the same inputs,
\* with any attention mask
FwCallAgain ==
    /\ fw_pc \in {"done", "raised"}
    /\ fw_run = 1
    /\ fw_first' = [attention_mask |-> fw_args.attention_mask, out |-> fw_out]
    /\ \E m \in FwMasks(fw_args.inputs[1], FwTokens(fw_cfg, fw_args.inputs)) :
            fw_args' = [fw_args EXCEPT !.attention_mask = m]
    /\ fw_run' = 2
    /\ fw_pc' = "preprocess"
    /\ fw_loc' = FwNoLocals
    /\ fw_out' = FwNoOutput
    /\ fw_trace' = <<>>
    /\ UNCHANGED <<fw_cfg, fw_module, notFw>>

\* lines 786-790: the preprocessor, when there is one
FwPreprocess ==
    /\ fw_pc = "preprocess"
    /\ IF HasPreprocessor(fw_cfg)
       THEN LET p == Preprocess(fw_cfg, fw_args.inputs)
            IN  IF p.status # "ok" THEN FwRaise(p.status)
                ELSE /\ fw_loc' = [fw_loc EXCEPT
                                      !.inputs = p.with_pos,
                                      !.inputs_without_pos = p.without_pos,
                                      !.normalized_by =
                                          IF BatchNormRuns(fw_cfg, fw_args.inputs)
                                          THEN BatchNormStatistics(fw_module.training,
                                                                   fw_module.batchnorm)
                                          ELSE NoStatistics]
                     /\ fw_pc' = "validate"
                     /\ fw_out' = fw_out
       ELSE /\ fw_loc' = [fw_loc EXCEPT !.inputs = fw_args.inputs]
            /\ fw_pc' = "validate"
            /\ fw_out' = fw_out
    /\ fw_module' =
         IF BatchNormRuns(fw_cfg, fw_args.inputs)
         THEN [fw_module EXCEPT !.batchnorm =
                  BatchNormBuffers(fw_module.training, fw_module.batchnorm, fw_args.inputs)]
         ELSE fw_module
    /\ fw_trace' = IF HasPreprocessor(fw_cfg) THEN Append(fw_trace, "preprocessor") ELSE fw_trace
    /\ UNCHANGED <<fw_cfg, fw_args, fw_run, fw_first, notFw>>

\* A mutant: every width is accepted.
WidthMatchesAlways(cfg, inputs) == TRUE

\* line 799: inputs.size()[-1] against config.d_model
WidthMatches(cfg, inputs) == Last(inputs) = cfg.d_model

\* lines 795-803: the trailing dimension must be config.d_model
FwValidate ==
    /\ fw_pc = "validate"
    /\ IF ~WidthMatches(fw_cfg, fw_loc.inputs) THEN FwRaise("ValueError")
       ELSE /\ fw_loc' = [fw_loc EXCEPT !.input_shape = fw_loc.inputs]
            /\ fw_pc' = "mask"
            /\ fw_out' = fw_out
    /\ fw_trace' = Append(fw_trace, "validation")
    /\ UNCHANGED <<fw_cfg, fw_args, fw_run, fw_first, fw_module, notFw>>

\* A mutant: a missing mask becomes all zeros.
DefaultAttentionMaskZeros(attention_mask, batch_size, seq_length) ==
    IF attention_mask.present THEN attention_mask
    ELSE Mask([i \in 1..batch_size |-> [k \in 1..seq_length |-> 0]])

\* lines 806-808: if no attention mask is provided, make it all ones
DefaultAttentionMask(attention_mask, batch_size, seq_length) ==
    IF attention_mask.present THEN attention_mask ELSE OnesMask(batch_size, seq_length)

\* get_head_mask(None, n): a list of n None
NoHeadMask(n) == [k \in 1..n |-> None]

\* lines 806-817: the additive mask and the head mask
FwBuildMask ==
    /\ fw_pc = "mask"
    /\ LET batch_size == fw_loc.input_shape[1]
           seq_length == fw_loc.input_shape[2]
           attention_mask == DefaultAttentionMask(fw_args.attention_mask, batch_size, seq_length)
       IN  fw_loc' = [fw_loc EXCEPT
                        !.extended_attention_mask = InvertAttentionMask(attention_mask),
                        !.head_mask = NoHeadMask(fw_cfg.num_blocks
                                                 * fw_cfg.num_self_attends_per_block)]
    /\ fw_pc' = "embeddings"
    /\ fw_trace' = Append(fw_trace, "mask")
    /\ UNCHANGED <<fw_cfg, fw_args, fw_run, fw_out, fw_first, fw_module, notFw>>

\* line 819
FwEmbeddings ==
    /\ fw_pc = "embeddings"
    /\ fw_loc' = [fw_loc EXCEPT !.embedding_output = Embeddings(fw_cfg, fw_loc.input_shape[1])]
    /\ fw_pc' = "encoder"
    /\ fw_trace' = Append(fw_trace, "embeddings")
    /\ UNCHANGED <<fw_cfg, fw_args, fw_run, fw_out, fw_first, fw_module, notFw>>

\* A mutant: the postprocessor does not wait for a decoder.
AfterEncoderAnyPostprocessor(cfg) ==
    IF HasDecoder(cfg) THEN "decoder_query"
    ELSE IF HasPostprocessor(cfg) THEN "postprocess"
    ELSE "return"

\* line 839, `if self.decoder:`: what follows the encoder
AfterEncoder(cfg) == IF HasDecoder(cfg) THEN "decoder_query" ELSE "return"

\* line 864, `if self.postprocessor:`: what follows the decoder
AfterDecoder(cfg) == IF HasPostprocessor(cfg) THEN "postprocess" ELSE "return"

\* lines 821-831: the encoder, called with attention_mask = None and
\* inputs_mask = extended_attention_mask
FwEncoder ==
    /\ fw_pc = "encoder"
    /\ LET e == EncoderForward(fw_cfg, fw_loc.embedding_output, NoMask, fw_loc.inputs,
                               fw_loc.extended_attention_mask,
                               fw_cfg.output_attentions, fw_cfg.output_hidden_states)
       IN  IF e.status # "ok" THEN FwRaise(e.status)
           ELSE /\ fw_loc' = [fw_loc EXCEPT !.encoder_outputs = e, !.sequence_output = e.last]
                /\ fw_pc' = AfterEncoder(fw_cfg)
                /\ fw_out' = fw_out
    /\ fw_trace' = Append(fw_trace, "encoder")
    /\ UNCHANGED <<fw_cfg, fw_args, fw_run, fw_first, fw_module, notFw>>

\* lines 840-844: the decoder builds its query (no subsampled points)
FwDecoderQuery ==
    /\ fw_pc = "decoder_query"
    /\ LET q == DecoderQuery(DecoderPosConfig(fw_cfg), fw_loc.inputs,
                             fw_loc.inputs_without_pos # <<>>, FALSE, <<>>)
       IN  IF q.status # "ok" THEN FwRaise(q.status)
           ELSE /\ fw_loc' = [fw_loc EXCEPT !.decoder_query = q.shape]
                /\ fw_pc' = "decoder"
                /\ fw_out' = fw_out
    /\ fw_trace' = Append(fw_trace, "decoder_query")
    /\ UNCHANGED <<fw_cfg, fw_args, fw_run, fw_first, fw_module, notFw>>

\* lines 845-865: the decoder, called with query_mask = extended_attention_mask;
\* its cross-attention map joins the encoder's outputs
\* a value of the returned tuple or structure: a tensor, a tuple of tensors,
\* or None
TensorItem(name, shape) == [name |-> name, kind |-> "tensor", shapes |-> <<shape>>]
TupleItem(name, t) ==
    [name |-> name, kind |-> IF t.present THEN "tuple" ELSE "none", shapes |-> t.items]

\* a tensor that may be None (the empty shape)
OptionalTensor(name, shape) ==
    [name |-> name, kind |-> IF shape = <<>> THEN "none" ELSE "tensor", shapes |-> <<shape>>]

\* lines 853-860: the decoder's cross-attentions are added to those of the
\* encoder: to the cross_attentions field of the structured form, to the end of
\* the tuple in tuple form
MergeCrossAttentions(e, decoder_cross_attentions, output_attentions, return_dict) ==
    IF output_attentions /\ decoder_cross_attentions.present
    THEN IF return_dict
         THEN [e EXCEPT !.cross_attentions =
                  [present |-> TRUE,
                   items |-> e.cross_attentions.items \o decoder_cross_attentions.items]]
         ELSE [e EXCEPT !.extra = decoder_cross_attentions.items]
    ELSE e

\* encoder_outputs[1:] in tuple form: the fields that are not None, then what
\* line 860 appended
EncoderTail(e) ==
    (IF e.hidden_states.present THEN <<TupleItem("", e.hidden_states)>> ELSE <<>>)
    \o (IF e.attentions.present THEN <<TupleItem("", e.attentions)>> ELSE <<>>)
    \o (IF e.cross_attentions.present THEN <<TupleItem("", e.cross_attentions)>> ELSE <<>>)
    \o [k \in 1..Len(e.extra) |-> TensorItem("", e.extra[k])]

\* lines 867-879: what PerceiverModel.forward returns: the tuple
\* (logits, sequence_output) + encoder_outputs[1:], or the PerceiverModelOutput
PerceiverModelReturn(return_dict, logits, sequence_output, e) ==
    IF ~return_dict
    THEN <<OptionalTensor("", logits), TensorItem("", sequence_output)>> \o EncoderTail(e)
    ELSE <<OptionalTensor("logits", logits),
           TensorItem("last_hidden_state", sequence_output),
           TupleItem("hidden_states", e.hidden_states),
           TupleItem("attentions", e.attentions),
           TupleItem("cross_attentions", e.cross_attentions)>>

FwDecoder ==
    /\ fw_pc = "decoder"
    /\ LET d == DecoderForward(fw_cfg, fw_loc.decoder_query, fw_loc.sequence_output,
                               fw_loc.extended_attention_mask, fw_cfg.output_attentions)
           e == fw_loc.encoder_outputs
           merged == MergeCrossAttentions(e, d.cross_attentions, fw_cfg.output_attentions,
                                          fw_cfg.use_return_dict)
       IN  IF d.status # "ok" THEN FwRaise(d.status)
           ELSE /\ fw_loc' = [fw_loc EXCEPT !.logits = d.logits, !.decoder_mask = d.mask,
                                            !.decoder_cross_attentions = d.cross_attentions,
                                            !.encoder_outputs = merged]
                /\ fw_pc' = AfterDecoder(fw_cfg)
                /\ fw_out' = fw_out
    /\ fw_trace' = Append(fw_trace, "decoder")
    /\ UNCHANGED <<fw_cfg, fw_args, fw_run, fw_first, fw_module, notFw>>

\* the postprocessor a bare model is given: a PerceiverProjectionPostprocessor
\* from the decoder's num_labels channels to one more
ProjectionPostprocessor(cfg, logits) ==
    IF logits = <<>> THEN ShapeErr("TypeError")
    ELSE Linear(cfg.num_labels, cfg.num_labels + 1, logits)

\* lines 864-865: the postprocessor, inside the decoder's branch
FwPostprocess ==
    /\ fw_pc = "postprocess"
    /\ LET p == ProjectionPostprocessor(fw_cfg, fw_loc.logits)
       IN  IF p.status # "ok" THEN FwRaise(p.status)
           ELSE /\ fw_loc' = [fw_loc EXCEPT !.logits = p.shape]
                /\ fw_pc' = "return"
                /\ fw_out' = fw_out
    /\ fw_trace' = Append(fw_trace, "postprocessor")
    /\ UNCHANGED <<fw_cfg, fw_args, fw_run, fw_first, fw_module, notFw>>

\* lines 867-879, then the task model's own forward (lines 933-963 and
\* 1014-1046, labels = None): the masked-language model decodes the logits
\* against the embedding matrix; both replace last_hidden_state by nothing
FwReturn ==
    /\ fw_pc = "return"
    /\ LET e == fw_loc.encoder_outputs
           head == IF fw_cfg.task = "mlm" THEN EmbeddingDecoder(fw_cfg, fw_loc.logits)
                   ELSE ShapeOk(fw_loc.logits)
           items ==
               IF fw_cfg.use_return_dict
               THEN (IF fw_cfg.task = "bare"
                     THEN <<TensorItem("last_hidden_state", fw_loc.sequence_output)>>
                     ELSE <<>>)
                    \o <<TupleItem("hidden_states", e.hidden_states),
                         TupleItem("attentions", e.attentions),
                         TupleItem("cross_attentions", e.cross_attentions)>>
               ELSE (IF fw_cfg.task = "bare"
                     THEN <<TensorItem("", fw_loc.sequence_output)>>
                     ELSE <<>>)
                    \o EncoderTail(e)
       IN  IF head.status # "ok" THEN FwRaise(head.status)
           ELSE /\ fw_out' = [status |-> "ok",
                              form |-> IF fw_cfg.use_return_dict THEN "dict" ELSE "tuple",
                              logits |-> head.shape,
                              items |-> items,
                              outputs |-> PerceiverModelReturn(fw_cfg.use_return_dict,
                                              fw_loc.logits, fw_loc.sequence_output, e),
                              encoder_mask |-> e.mask,
                              decoder_mask |-> fw_loc.decoder_mask,
                              normalized_by |-> fw_loc.normalized_by]
                /\ fw_pc' = "done"
                /\ fw_loc' = fw_loc
    /\ UNCHANGED <<fw_cfg, fw_args, fw_run, fw_first, fw_trace, fw_module, notFw>>

FwNext ==
    \/ FwCall
    \/ FwCallAgain
    \/ FwPreprocess
    \/ FwValidate
    \/ FwBuildMask
    \/ FwEmbeddings
    \/ FwEncoder
    \/ FwDecoderQuery
    \/ FwDecoder
    \/ FwPostprocess
    \/ FwReturn

\* ------------------------------------------------------------------ constructors

RECURSIVE BuildLayers(_, _)
\* Constructs the layers in order; a constructor that raises ends the
\* construction, leaving the layers built before it.
BuildLayers(layers, built) ==
    IF layers = <<>> THEN [status |-> "ok", built |-> built]
    ELSE IF Head(layers).status # "ok"
    THEN [status |-> Head(layers).status, built |-> built]
    ELSE BuildLayers(Tail(layers), Append(built, Head(layers)))

\* PerceiverEncoder.__init__: the checks of lines 546-555, then the
\* cross-attention layer (558-568), then the self-attention layers (572-586).
\* built lists the layers constructed when the constructor returned or raised.
EncoderInit(cfg) ==
    IF EncoderInitCheck(cfg) # "ok"
    THEN [status |-> EncoderInitCheck(cfg), built |-> <<>>]
    ELSE BuildLayers(<<EncoderCrossLayer(cfg)>>
                       \o [i \in 1..cfg.num_self_attends_per_block |-> EncoderSelfLayer(cfg)],
                     <<>>)

\* the keyword arguments of a position encoding: None, an empty dict, or given
KwargsValues == {"None", "empty", "given"}

\* build_position_encoding, lines 1491-1502: `not kwargs` is true of None and
\* of an empty dict
BuildPositionEncoding(position_encoding_type, trainable_kwargs, fourier_kwargs) ==
    IF position_encoding_type = "trainable"
    THEN IF trainable_kwargs # "given" THEN [status |-> "ValueError", encoding |-> "none"]
         ELSE [status |-> "ok", encoding |-> "trainable"]
    ELSE IF position_encoding_type = "fourier"
    THEN IF fourier_kwargs # "given" THEN [status |-> "ValueError", encoding |-> "none"]
         ELSE [status |-> "ok", encoding |-> "fourier"]
    ELSE [status |-> "ValueError", encoding |-> "none"]

RECURSIVE IsPowerOf4(_)
\* whether math.log(n, 4) is a whole number, for n >= 1
IsPowerOf4(n) ==
    IF n = 1 THEN TRUE
    ELSE IF n % 4 # 0 THEN FALSE
    ELSE IsPowerOf4(n \div 4)

\* A mutant: the convolutional front-end accepts any temporal_downsample.
ConvCheckSpatialOnly(a) ==
    IF a.prep_type = "conv"
    THEN IF a.spatial_downsample <= 0 \/ ~IsPowerOf4(a.spatial_downsample)
         THEN "ValueError"
         ELSE "ok"
    ELSE "ok"

\* PerceiverImagePreprocessor.__init__, lines 2401-2408 and 2416-2418: the
\* checks of the convolutional front-ends. math.log raises ValueError (math
\* domain error) for a non-positive argument.
ConvCheck(a) ==
    IF a.prep_type = "conv"
    THEN IF a.spatial_downsample <= 0 THEN "ValueError"
         ELSE IF ~IsPowerOf4(a.spatial_downsample) \/ a.temporal_downsample # 1
         THEN "ValueError"
         ELSE "ok"
    ELSE IF a.prep_type = "conv1x1"
    THEN IF a.temporal_downsample # 1 THEN "ValueError" ELSE "ok"
    ELSE "ok"

\* the module a preprocessor's constructor leaves, or the error it raised
Preprocessor(status, encoding) == [status |-> status, encoding |-> encoding]

\* PerceiverImagePreprocessor.__init__, lines 2386-2434
ImagePreprocessorInit(a) ==
    IF a.prep_type \notin {"conv", "patches", "pixels", "conv1x1"}
    THEN Preprocessor("ValueError", "none")
    ELSE IF a.concat_or_add_pos \notin {"concat", "add"}
    THEN Preprocessor("ValueError", "none")
    ELSE IF ConvCheck(a) # "ok" THEN Preprocessor(ConvCheck(a), "none")
    ELSE BuildPositionEncoding(a.position_encoding_type, a.trainable_kwargs, a.fourier_kwargs)

\* PerceiverAudioPreprocessor.__init__, lines 2607-2624
AudioPreprocessorInit(a) ==
    IF a.prep_type \notin {"patches"} THEN Preprocessor("ValueError", "none")
    ELSE IF a.concat_or_add_pos \notin {"concat", "add"}
    THEN Preprocessor("ValueError", "none")
    ELSE BuildPositionEncoding(a.position_encoding_type, a.trainable_kwargs, a.fourier_kwargs)

\* the configs PerceiverEncoder is constructed with
CtEncoderConfigs ==
    [kind : {"encoder"},
     d_latents : 1..MaxChannels, d_model : {MaxChannels},
     num_self_attention_heads : 1..MaxHeads, num_cross_attention_heads : 1..MaxHeads,
     num_self_attends_per_block : 1..2,
     qk_channels : {None, 2}, v_channels : {None},
     cross_attention_widening_factor : {1}, self_attention_widening_factor : {1},
     use_query_residual : {TRUE}, cross_attention_shape_for_attention : {"kv"}]

\* the arguments build_position_encoding is called with
CtPositionArgs ==
    [kind : {"position_encoding"},
     position_encoding_type : {"trainable", "fourier", "none", "learned"},
     trainable_kwargs : KwargsValues, fourier_kwargs : KwargsValues]

\* the arguments PerceiverImagePreprocessor is constructed with
CtImageArgs ==
    [kind : {"image_preprocessor"},
     prep_type : {"conv", "patches", "pixels", "conv1x1", "conv2d"},
     concat_or_add_pos : {"concat", "add", "cat"},
     spatial_downsample : {0, 1, 2, 3, 4, 8, 16, 17},
     temporal_downsample : {1, 2},
     position_encoding_type : {"trainable", "fourier", "learned"},
     trainable_kwargs : {"None", "given"}, fourier_kwargs : {"None", "given"}]

\* the arguments PerceiverAudioPreprocessor is constructed with
CtAudioArgs ==
    [kind : {"audio_preprocessor"},
     prep_type : {"patches", "conv"},
     concat_or_add_pos : {"concat", "add", "cat"},
     position_encoding_type : {"trainable", "fourier", "learned"},
     trainable_kwargs : {"None", "given"}, fourier_kwargs : {"None", "given"}]

\* no constructor has run
NotConstructed == [status |-> "none"]

CtFrozen ==
    /\ ct_args = [kind |-> "none"]
    /\ ct_obj = NotConstructed

\* the arguments of a construction that has not run yet
CtInit ==
    /\ ct_args \in CtEncoderConfigs \cup CtPositionArgs \cup CtImageArgs \cup CtAudioArgs
    /\ ct_obj = NotConstructed

\* PerceiverEncoder(config)
CtEncoder ==
    /\ ct_args.kind = "encoder"
    /\ ct_obj = NotConstructed
    /\ ct_obj' = EncoderInit(ct_args)
    /\ UNCHANGED <<ct_args, notCt>>

\* build_position_encoding(position_encoding_type, ...)
CtPositionEncoding ==
    /\ ct_args.kind = "position_encoding"
    /\ ct_obj = NotConstructed
    /\ ct_obj' = BuildPositionEncoding(ct_args.position_encoding_type,
                                       ct_args.trainable_kwargs, ct_args.fourier_kwargs)
    /\ UNCHANGED <<ct_args, notCt>>

\* PerceiverImagePreprocessor(config, ...)
CtImagePreprocessor ==
    /\ ct_args.kind = "image_preprocessor"
    /\ ct_obj = NotConstructed
    /\ ct_obj' = ImagePreprocessorInit(ct_args)
    /\ UNCHANGED <<ct_args, notCt>>

\* PerceiverAudioPreprocessor(config, ...)
CtAudioPreprocessor ==
    /\ ct_args.kind = "audio_preprocessor"
    /\ ct_obj = NotConstructed
    /\ ct_obj' = AudioPreprocessorInit(ct_args)
    /\ UNCHANGED <<ct_args, notCt>>

CtNext ==
    \/ CtEncoder
    \/ CtPositionEncoding
    \/ CtImagePreprocessor
    \/ CtAudioPreprocessor

\* ------------------------------------------------------------------ PerceiverLayer

\* The arguments a PerceiverLayer is constructed with. A self-attention layer
\* is given kv_dim = q_dim, as in PerceiverEncoder.__init__ (lines 574-583).
LyArgs ==
    {a \in [is_cross_attention : BOOLEAN, qk_channels : OptChannels, v_channels : OptChannels,
            num_heads : 1..MaxHeads, q_dim : 1..MaxChannels, kv_dim : 1..MaxChannels,
            widening_factor : {1, 2}, use_query_residual : BOOLEAN,
            shape_for_attention : {"q", "kv"}] :
        /\ ~a.is_cross_attention => a.kv_dim = a.q_dim
        /\ ~a.is_cross_attention => a.shape_for_attention = "kv"}

\* the hidden states [B, M, q_dim] a layer is called on
LyHidden(a) == <<1, 2, a.q_dim>>

\* the inputs [B, N, kv_dim] a cross-attention layer is called on
LyInputs(a) == <<1, 3, a.kv_dim>>

NoLayer == [status |-> "none"]
NoLayerOutput == [status |-> "none"]

\* PerceiverLayer.forward step by step: the output projection of the attention
\* module (line 434), the attention module's output after the optional query
\* residual (lines 438-439), the MLP's first layer and the whole MLP on a
\* normalized tensor [B, M, q_dim] (lines 458-460), and the layer's output
\* (lines 512-526)
LayerSteps(layer, hidden, inputs) ==
    [status |-> "done",
     projected |-> AttentionForward(layer, hidden,
                                    IF layer.is_cross_attention THEN inputs ELSE hidden),
     attention_output |->
         QueryResidual(layer, hidden,
             AttentionForward(layer, hidden,
                              IF layer.is_cross_attention THEN inputs ELSE hidden)),
     dense1 |-> MLPDense1(layer, WithLast(hidden, layer.q_dim)),
     mlp |-> MLPForward(layer, WithLast(hidden, layer.q_dim)),
     layer_output |-> LayerForward(layer, hidden, inputs)]

LyFrozen ==
    /\ ly_args = [is_cross_attention |-> FALSE, qk_channels |-> None, v_channels |-> None,
                  num_heads |-> 1, q_dim |-> 1, kv_dim |-> 1, widening_factor |-> 1,
                  use_query_residual |-> TRUE, shape_for_attention |-> "kv"]
    /\ ly_obj = NoLayer
    /\ ly_out = NoLayerOutput

\* the arguments of a construction that has not run yet
LyInit ==
    /\ ly_args \in LyArgs
    /\ ly_obj = NoLayer
    /\ ly_out = NoLayerOutput

\* PerceiverLayer(config, is_cross_attention, qk_channels, v_channels,
\* num_heads, q_dim, kv_dim, widening_factor, use_query_residual)
LyConstruct ==
    /\ ly_obj = NoLayer
    /\ ly_obj' = LayerInit(ly_args, ly_args.shape_for_attention)
    /\ UNCHANGED <<ly_args, ly_out, notLy>>

\* layer(hidden_states, inputs=inputs) on tensors of the widths it was built for
LyForward ==
    /\ ly_obj # NoLayer
    /\ ly_obj.status = "ok"
    /\ ly_out = NoLayerOutput
    /\ ly_out' = LayerSteps(ly_obj, LyHidden(ly_args), LyInputs(ly_args))
    /\ UNCHANGED <<ly_args, ly_obj, notLy>>

LyNext ==
    \/ LyConstruct
    \/ LyForward

\* ------------------------------------------------------------------ optical flow and multimodal autoencoding

\* The PerceiverConfig of the two task models of this section. d_model is the
\* width their preprocessor produces.
TkPerceiverConfig(d_model) ==
    [d_model |-> d_model, d_latents |-> 4, num_latents |-> 2,
     num_blocks |-> 1, num_self_attends_per_block |-> 1,
     num_self_attention_heads |-> 2, num_cross_attention_heads |-> 1,
     qk_channels |-> None, v_channels |-> None,
     cross_attention_widening_factor |-> 1, self_attention_widening_factor |-> 1,
     use_query_residual |-> TRUE, cross_attention_shape_for_attention |-> "kv"]

\* the max of a dict's values
MaxOver(f) == CHOOSE v \in {f[m] : m \in DOMAIN f} : \A m \in DOMAIN f : f[m] <= v

\* the status of the first entry of d, in the order of keys, that is an error
FirstError(keys, d) ==
    IF \A k \in 1..Len(keys) : d[keys[k]].status = "ok" THEN "ok"
    ELSE d[keys[CHOOSE k \in 1..Len(keys) :
                  /\ d[keys[k]].status # "ok"
                  /\ \A j \in 1..(k - 1) : d[keys[j]].status = "ok"]].status

\* torch.cat([x, torch.broadcast_to(padding, [B, n, common - x.shape[2]])], dim=2)
\* for a padding parameter of shape (1, common - declared): the broadcast
\* needs the parameter's width to be the target's, or 1
PadTo(declared, common, x) ==
    IF x.status # "ok" THEN x
    ELSE IF common < Last(x.shape) THEN ShapeErr("RuntimeError")
    ELSE IF common - declared # common - Last(x.shape) /\ common - declared # 1
    THEN ShapeErr("RuntimeError")
    ELSE ShapeOk(WithLast(x.shape, common))

\* space_to_depth on frames [B, C, H, W], "b c (h dh) (w dw) -> b h w (dh dw c)",
\* or [B, T, C, H, W], "b (t dt) c (h dh) (w dw) -> b t h w (dt dh dw c)"
SpaceToDepth(frames, dt, ds) ==
    IF Len(frames) = 4
    THEN IF frames[3] % ds # 0 \/ frames[4] % ds # 0 THEN ShapeErr("EinopsError")
         ELSE ShapeOk(<<frames[1], frames[3] \div ds, frames[4] \div ds, ds * ds * frames[2]>>)
    ELSE IF Len(frames) # 5 THEN ShapeErr("ValueError")
    ELSE IF frames[2] % dt # 0 \/ frames[4] % ds # 0 \/ frames[5] % ds # 0
    THEN ShapeErr("EinopsError")
    ELSE ShapeOk(<<frames[1], frames[2] \div dt, frames[4] \div ds, frames[5] \div ds,
                   dt * ds * ds * frames[3]>>)

\* lines 2547-2549: `if inputs.ndim == 5 and inputs.shape[1] == 1: squeeze(dim=1)`
SqueezeTime(x) ==
    IF x.status = "ok" /\ Len(x.shape) = 5 /\ x.shape[2] = 1
    THEN ShapeOk(<<x.shape[1]>> \o SubSeq(x.shape, 3, 5))
    ELSE x

\* _build_network_inputs with Fourier positions `kwargs` over the index
\* dimensions of x [B, ..., C], concatenated to the flattened x
FourierNetworkInputs(kwargs, x) ==
    IF x.status # "ok" THEN x
    ELSE CatLast(FlattenIndexDims(x.shape),
                 FourierForward(kwargs, SubSeq(x.shape, 2, Len(x.shape) - 1), x.shape[1],
                                FALSE, <<>>).shape)

\* nn.Linear on the result of an earlier step
LinearOn(in_features, out_features, x) ==
    IF x.status # "ok" THEN x ELSE Linear(in_features, out_features, x.shape)

\* --- PerceiverForOpticalFlow

\* the Fourier positions of the flow model's preprocessor and decoder
FlowFourierKwargs(cfg) ==
    [num_bands |-> 64, max_resolution |-> cfg.train_size,
     concat_pos |-> TRUE, sine_only |-> FALSE]

\* PerceiverImagePreprocessor.forward as PerceiverForOpticalFlow configures it
\* (patches, temporal_downsample 2, conv_after_patching from 54 channels to
\* out_channels) on [B, 2, 27, H, W]
FlowPreprocess(cfg, inputs) ==
    FourierNetworkInputs(FlowFourierKwargs(cfg),
        LinearOn(54, ConvOutChannels, SqueezeTime(SpaceToDepth(inputs, 2, 1))))

\* PerceiverImagePreprocessor.num_channels for the flow model
FlowNumChannels(cfg) == ConvOutChannels + FourierOutputSize(FlowFourierKwargs(cfg), None)

\* the cross-attention of the flow decoder's PerceiverBasicDecoder
FlowDecoderLayer(cfg) ==
    LayerInit(LayerArgs(TRUE, None, None, 1, cfg.d_model, cfg.d_latents, 1, FALSE),
              cfg.cross_attention_shape_for_attention)

\* preds.reshape([B] + output_image_shape + [C]) of [B, N, C]
FlowReshape(cfg, preds) ==
    IF preds.status # "ok" THEN preds
    ELSE IF preds.shape[2] # Prod(cfg.train_size) THEN ShapeErr("RuntimeError")
    ELSE ShapeOk(<<preds.shape[1]>> \o cfg.train_size \o <<Last(preds.shape)>>)

\* PerceiverFlowDecoder.forward: the Basic decoder (cross-attention, final
\* projection to output_num_channels = 2), then the reshape to the image
FlowDecoder(cfg, query, z) ==
    FlowReshape(cfg, LinearOn(cfg.d_model, 2, LayerForward(FlowDecoderLayer(cfg), query, z)))

\* --- PerceiverForMultimodalAutoencoding

AudioSamples(cfg) == cfg.num_frames * cfg.audio_samples_per_frame

\* the Fourier positions of the audio preprocessor and the audio decoder
AudioFourierKwargs(cfg) ==
    [num_bands |-> 192, max_resolution |-> <<AudioSamples(cfg)>>,
     concat_pos |-> TRUE, sine_only |-> FALSE]

\* the Fourier positions of the image preprocessor and the image decoder
VideoFourierKwargs(cfg) ==
    [num_bands |-> 32, max_resolution |-> <<cfg.num_frames, cfg.image_size, cfg.image_size>>,
     concat_pos |-> TRUE, sine_only |-> FALSE]

\* the num_channels property of each modality's preprocessor: audio (line
\* 2626), image with patches of spatial_downsample 4 (line 2441), one-hot
\* labels (line 2578)
PreprocessorNumChannels(cfg) ==
    [audio |-> cfg.samples_per_patch + FourierOutputSize(AudioFourierKwargs(cfg), 1),
     image |-> ImageInChannels * 4 * 4 + FourierOutputSize(VideoFourierKwargs(cfg), None),
     label |-> cfg.num_labels]

\* PerceiverMultimodalPreprocessor.num_channels with min_padding_size = 4
MultimodalNumChannels(cfg) == MaxOver(PreprocessorNumChannels(cfg)) + 4

\* PerceiverAudioPreprocessor.forward on [B, samples, 1]
AudioPreprocess(cfg, inputs) ==
    FourierNetworkInputs(AudioFourierKwargs(cfg),
        IF Prod(Tail(inputs)) % cfg.samples_per_patch # 0 THEN ShapeErr("RuntimeError")
        ELSE ShapeOk(<<inputs[1], Prod(Tail(inputs)) \div cfg.samples_per_patch,
                       cfg.samples_per_patch>>))

\* PerceiverImagePreprocessor.forward with patches of spatial_downsample 4 on
\* [B, T, 3, H, W]
VideoPreprocess(cfg, inputs) ==
    FourierNetworkInputs(VideoFourierKwargs(cfg), SqueezeTime(SpaceToDepth(inputs, 1, 4)))

\* PerceiverOneHotPreprocessor.forward on [B, num_labels]: inputs[:, None, :]
OneHotPreprocess(inputs) == ShapeOk(<<inputs[1], 1, inputs[2]>>)

\* lines 2728-2746: every modality preprocessed and padded to the common width
MultimodalPadded(cfg, inputs) ==
    [audio |-> PadTo(PreprocessorNumChannels(cfg).audio, MultimodalNumChannels(cfg),
                     AudioPreprocess(cfg, inputs.audio)),
     image |-> PadTo(PreprocessorNumChannels(cfg).image, MultimodalNumChannels(cfg),
                     VideoPreprocess(cfg, inputs.image)),
     label |-> PadTo(PreprocessorNumChannels(cfg).label, MultimodalNumChannels(cfg),
                     OneHotPreprocess(inputs.label))]

\* the sum of a dict's values
SumSizes(sizes) == sizes.audio + sizes.image + sizes.label

\* lines 2754-2765: the modality sizes and the concatenation over the tokens
MultimodalFinal(cfg, order, padded) ==
    IF FirstError(order, padded) # "ok"
    THEN [status |-> FirstError(order, padded), shape |-> <<>>, modality_sizes |-> <<>>]
    ELSE [status |-> "ok",
          shape |-> <<padded.audio.shape[1],
                      SumSizes([m \in DOMAIN padded |-> padded[m].shape[2]]),
                      MultimodalNumChannels(cfg)>>,
          modality_sizes |-> [m \in DOMAIN padded |-> padded[m].shape[2]]]

\* PerceiverMultimodalPreprocessor.forward; the modalities were given in the
\* order audio, image, label
MultimodalPreprocess(cfg, inputs) ==
    MultimodalFinal(cfg, <<"audio", "image", "label">>, MultimodalPadded(cfg, inputs))

\* the position-encoding configuration of each modality's decoder, all built
\* with position_encoding_only = True and concat_preprocessed_input = False
ModalityDecoders(cfg) ==
    [audio |-> [type |-> "fourier",
                index_dims |-> <<AudioSamples(cfg) \div cfg.samples_per_patch>>,
                max_resolution |-> <<AudioSamples(cfg)>>, num_channels |-> 0,
                num_bands |-> 192, concat_pos |-> TRUE, sine_only |-> FALSE,
                concat_preprocessed_input |-> FALSE],
     image |-> [type |-> "fourier",
                index_dims |-> <<cfg.num_frames, cfg.image_size, cfg.image_size>>,
                max_resolution |-> <<cfg.num_frames, cfg.image_size, cfg.image_size>>,
                num_channels |-> 0,
                num_bands |-> 32, concat_pos |-> TRUE, sine_only |-> FALSE,
                concat_preprocessed_input |-> FALSE],
     label |-> [type |-> "trainable", index_dims |-> <<1>>, max_resolution |-> <<>>,
                num_channels |-> 1024, num_bands |-> 1, concat_pos |-> TRUE,
                sine_only |-> FALSE, concat_preprocessed_input |-> FALSE]]

\* PerceiverBasicDecoder.num_query_channels with position_encoding_only
ModalityQueryChannels(d) ==
    IF d.type = "trainable" THEN TrainableOutputSize(d) ELSE FourierOutputSize(d, 1)

\* PerceiverMultimodalDecoder.num_query_channels with min_padding_size = 2
NumQueryChannels(cfg) ==
    MaxOver([m \in ModalityNames |-> ModalityQueryChannels(ModalityDecoders(cfg)[m])]) + 2

\* what subsampled_points.get(modality, None) gives; None is <<>>
PointsFor(subsampled_points, m) ==
    IF m \in DOMAIN subsampled_points THEN subsampled_points[m] ELSE <<>>

\* decoder.decoder_query of one modality on its slice of the inputs. The label
\* decoder is a PerceiverClassificationDecoder, whose output_index_dims is the
\* integer 1: with subsampled points, torch.tensor(1)[None, :] raises.
ModalityDecoderQuery(cfg, m, slice, points) ==
    IF m = "label" /\ points # <<>> THEN Raised("IndexError")
    ELSE DecoderQuery(ModalityDecoders(cfg)[m], slice, FALSE, points # <<>>, points)

\* embed (lines 1923-1928): the query flattened to [B, n, C] and padded to
\* num_query_channels
Embed(cfg, m, q) ==
    PadTo(ModalityQueryChannels(ModalityDecoders(cfg)[m]), NumQueryChannels(cfg),
          ShapeOk(ReshapeKeepEnds(q).shape))

\* lines 1904-1919: the queries of all modalities
MultimodalQueries(cfg, modality_sizes, inputs, subsampled_points) ==
    [m \in ModalityNames |->
        ModalityDecoderQuery(cfg, m, <<inputs[1], modality_sizes[m], inputs[3]>>,
                             PointsFor(subsampled_points, m))]

\* the status and shape of each query
QueryShapes(queries) ==
    [m \in DOMAIN queries |-> [status |-> queries[m].status, shape |-> queries[m].shape]]

\* a token of the decoder query: the i-th query of modality m
QueryToken(m, i) == [modality |-> m, index |-> i]

\* lines 1930-1933: torch.cat of the embedded queries in sorted order, on
\* shapes and on the identity of the tokens
MultimodalQueryCat(cfg, queries) ==
    IF FirstError(SortedKeys(DOMAIN queries), queries) # "ok"
    THEN [status |-> FirstError(SortedKeys(DOMAIN queries), queries),
          shape |-> <<>>, tokens |-> <<>>]
    ELSE [status |-> "ok",
          shape |-> <<queries.audio.shape[1],
                      SumSizes([m \in DOMAIN queries |-> queries[m].shape[2]]),
                      NumQueryChannels(cfg)>>,
          tokens |-> CatTokens(SortedKeys(DOMAIN queries),
                               [m \in DOMAIN queries |->
                                   [i \in 1..queries[m].shape[2] |-> QueryToken(m, i)]])]

\* the queries, built in the order the modalities were given, are embedded
\* once all are built
MultimodalEmbedded(cfg, order, queries) ==
    IF FirstError(order, queries) # "ok"
    THEN [status |-> FirstError(order, queries), shape |-> <<>>, tokens |-> <<>>]
    ELSE MultimodalQueryCat(cfg, [m \in DOMAIN queries |-> Embed(cfg, m, queries[m])])

\* PerceiverMultimodalDecoder.decoder_query. restructure partitions the inputs
\* by modality_sizes, so a modality's slice is [B, modality_sizes[m], C].
MultimodalDecoderQuery(cfg, inputs, modality_sizes, subsampled_points) ==
    MultimodalEmbedded(cfg, <<"audio", "image", "label">>,
        MultimodalQueries(cfg, modality_sizes, inputs, subsampled_points))

\* the cross-attention of the multimodal decoder's PerceiverBasicDecoder
MultimodalDecoderLayer(cfg) ==
    LayerInit(LayerArgs(TRUE, None, None, 1, NumQueryChannels(cfg), cfg.d_latents, 1, FALSE),
              cfg.cross_attention_shape_for_attention)

\* PerceiverMultimodalDecoder.forward: the Basic decoder with
\* output_num_channels = 512
MultimodalDecoder(cfg, query, z) ==
    LinearOn(NumQueryChannels(cfg), 512, LayerForward(MultimodalDecoderLayer(cfg), query, z))

\* PerceiverMultimodalDecoder.output_shape(inputs)[1]: the subsampled sizes the
\* constructor was given
DecoderOutputSizes(cfg) ==
    [audio |-> cfg.subsampling.audio, image |-> cfg.subsampling.image, label |-> 1]

\* PerceiverAudioPostprocessor.forward on [B, n, 512]
AudioPostprocessor(cfg, x) ==
    IF Linear(512, cfg.samples_per_patch, x).status # "ok" THEN Linear(512, cfg.samples_per_patch, x)
    ELSE ShapeOk(<<x[1], x[2] * cfg.samples_per_patch>>)

\* PerceiverClassificationPostprocessor.forward on [B, n, 512]: logits[:, 0, :]
ClassificationPostprocessor(cfg, x) ==
    IF Linear(512, cfg.num_labels, x).status # "ok" THEN Linear(512, cfg.num_labels, x)
    ELSE IF x[2] = 0 THEN ShapeErr("IndexError")
    ELSE ShapeOk(FirstToken(Linear(512, cfg.num_labels, x).shape))

\* PerceiverMultimodalPostprocessor.forward: restructure by modality_sizes,
\* then each modality's postprocessor on its slice. `slices` is the result of
\* restructure on the identity of the tokens.
MultimodalPostprocessor(cfg, logits, tokens, modality_sizes) ==
    [slices |-> Restructure(modality_sizes, tokens),
     outputs |->
        [audio |-> AudioPostprocessor(cfg,
                       <<logits[1], Len(Restructure(modality_sizes, tokens).audio), logits[3]>>),
         image |-> Linear(512, 3,
                       <<logits[1], Len(Restructure(modality_sizes, tokens).image), logits[3]>>),
         label |-> ClassificationPostprocessor(cfg,
                       <<logits[1], Len(Restructure(modality_sizes, tokens).label), logits[3]>>)]]

\* --- the models and their calls

\* PerceiverForOpticalFlow for two training sizes, and
\* PerceiverForMultimodalAutoencoding for the numbers of subsampled points per
\* modality its constructor is given. d_model is the width of the preprocessor.
TkModels ==
    {[model |-> "optical_flow", train_size |-> ts] : ts \in {<<2, 2>>, <<2, 3>>}}
    \cup
    {[model |-> "multimodal", num_frames |-> 2, image_size |-> 4,
      audio_samples_per_frame |-> 4, samples_per_patch |-> 2, num_labels |-> 3,
      subsampling |-> [audio |-> ka, image |-> ki]] : ka \in 1..2, ki \in 1..2}

\* the whole configuration of a model: its PerceiverConfig and its own fields
TkConfigOf(m) ==
    [f \in DOMAIN m \cup DOMAIN TkPerceiverConfig(0) |->
        IF f \in DOMAIN m THEN m[f]
        ELSE IF f # "d_model" THEN TkPerceiverConfig(0)[f]
        ELSE IF m.model = "optical_flow" THEN FlowNumChannels(m)
        ELSE MultimodalNumChannels(m)]

TkConfigs == {TkConfigOf(m) : m \in TkModels}

\* the inputs of a call: two frames of 3 x 3 patches of 3 channels per pixel
\* of an image of the training size, or audio, video and one-hot labels of
\* the configured sizes
TkInputs(cfg, b) ==
    IF cfg.model = "optical_flow"
    THEN <<b, 2, 27, cfg.train_size[1], cfg.train_size[2]>>
    ELSE [audio |-> <<b, AudioSamples(cfg), 1>>,
          image |-> <<b, cfg.num_frames, ImageInChannels, cfg.image_size, cfg.image_size>>,
          label |-> <<b, cfg.num_labels>>]

\* the subsampled_output_points of a call: None (the empty dict here) or a
\* dict giving some modalities the flat indices to decode
TkSubsampledPoints(cfg) ==
    IF cfg.model = "optical_flow" THEN {[m \in {} |-> <<>>]}
    ELSE UNION {[S -> {<<0>>, <<0, 1>>, <<1, 3>>}] : S \in SUBSET ModalityNames}

TkNoArgs == [inputs |-> <<>>, subsampled_output_points |-> <<>>, labels |-> FALSE,
             return_dict |-> TRUE]

TkNoLocals ==
    [inputs |-> <<>>, modality_sizes |-> <<>>, sequence_output |-> <<>>,
     queries |-> <<>>, decoder_query |-> <<>>, query_tokens |-> <<>>,
     output_modality_sizes |-> <<>>,
     decoder_logits |-> <<>>, slices |-> <<>>, logits |-> <<>>]

TkNoOutput == [status |-> "none", loss |-> "absent", logits |-> <<>>]

TkFrozen ==
    /\ tk_cfg = TkConfigOf([model |-> "optical_flow", train_size |-> <<2, 2>>])
    /\ tk_pc = "idle"
    /\ tk_args = TkNoArgs
    /\ tk_loc = TkNoLocals
    /\ tk_out = TkNoOutput

\* a constructed task model that has not been called
TkInit ==
    /\ tk_cfg \in TkConfigs
    /\ tk_pc = "idle"
    /\ tk_args = TkNoArgs
    /\ tk_loc = TkNoLocals
    /\ tk_out = TkNoOutput

\* the call raises err
TkRaise(err) ==
    /\ tk_pc' = "raised"
    /\ tk_out' = [TkNoOutput EXCEPT !.status = err]
    /\ tk_loc' = tk_loc

\* model(inputs, subsampled_output_points, labels, return_dict): labels is
\* whether labels are supplied
TkCall ==
    /\ tk_pc = "idle"
    /\ \E b \in 1..MaxBatch, pts \in TkSubsampledPoints(tk_cfg),
          labels \in BOOLEAN, rd \in BOOLEAN :
         tk_args' = [inputs |-> TkInputs(tk_cfg, b), subsampled_output_points |-> pts,
                     labels |-> labels, return_dict |-> rd]
    /\ tk_pc' = "preprocess"
    /\ UNCHANGED <<tk_cfg, tk_loc, tk_out, notTk>>

\* PerceiverModel.forward, lines 786-803: the preprocessor and the check of
\* the width of its result
TkPreprocess ==
    /\ tk_pc = "preprocess"
    /\ LET p == IF tk_cfg.model = "optical_flow"
                THEN [status |-> FlowPreprocess(tk_cfg, tk_args.inputs).status,
                      shape |-> FlowPreprocess(tk_cfg, tk_args.inputs).shape,
                      modality_sizes |-> <<>>]
                ELSE MultimodalPreprocess(tk_cfg, tk_args.inputs)
       IN  IF p.status # "ok" THEN TkRaise(p.status)
           ELSE IF ~WidthMatches(tk_cfg, p.shape) THEN TkRaise("ValueError")
           ELSE /\ tk_loc' = [tk_loc EXCEPT !.inputs = p.shape,
                                            !.modality_sizes = p.modality_sizes]
                /\ tk_pc' = "encoder"
                /\ tk_out' = tk_out
    /\ UNCHANGED <<tk_cfg, tk_args, notTk>>

\* lines 806-837: the default mask, the latents and the encoder
TkEncoder ==
    /\ tk_pc = "encoder"
    /\ LET e == EncoderForward(tk_cfg, Embeddings(tk_cfg, tk_loc.inputs[1]), NoMask,
                               tk_loc.inputs,
                               InvertAttentionMask(
                                   DefaultAttentionMask(NoMask, tk_loc.inputs[1],
                                                        tk_loc.inputs[2])),
                               FALSE, FALSE)
       IN  IF e.status # "ok" THEN TkRaise(e.status)
           ELSE /\ tk_loc' = [tk_loc EXCEPT !.sequence_output = e.last]
                /\ tk_pc' = "decoder_query"
                /\ tk_out' = tk_out
    /\ UNCHANGED <<tk_cfg, tk_args, notTk>>

\* lines 840-850: output_modality_sizes and the decoder query.
\* PerceiverFlowDecoder.decoder_query returns the inputs.
TkDecoderQuery ==
    /\ tk_pc = "decoder_query"
    /\ LET q == IF tk_cfg.model = "optical_flow"
                THEN [status |-> "ok", shape |-> tk_loc.inputs, tokens |-> <<>>]
                ELSE MultimodalDecoderQuery(tk_cfg, tk_loc.inputs, tk_loc.modality_sizes,
                                            tk_args.subsampled_output_points)
           queries == IF tk_cfg.model = "optical_flow" THEN <<>>
                      ELSE QueryShapes(MultimodalQueries(tk_cfg, tk_loc.modality_sizes,
                                       tk_loc.inputs, tk_args.subsampled_output_points))
       IN  IF q.status # "ok"
           THEN /\ tk_pc' = "raised"
                /\ tk_out' = [TkNoOutput EXCEPT !.status = q.status]
                /\ tk_loc' = [tk_loc EXCEPT !.queries = queries]
           ELSE /\ tk_loc' = [tk_loc EXCEPT
                                !.queries = queries,
                                !.output_modality_sizes =
                                    IF tk_cfg.model = "optical_flow" THEN tk_loc.modality_sizes
                                    ELSE DecoderOutputSizes(tk_cfg),
                                !.decoder_query = q.shape,
                                !.query_tokens = q.tokens]
                /\ tk_pc' = "decoder"
                /\ tk_out' = tk_out
    /\ UNCHANGED <<tk_cfg, tk_args, notTk>>

\* lines 851-862: the decoder; the flow model has no postprocessor
TkDecoder ==
    /\ tk_pc = "decoder"
    /\ LET d == IF tk_cfg.model = "optical_flow"
                THEN FlowDecoder(tk_cfg, tk_loc.decoder_query, tk_loc.sequence_output)
                ELSE MultimodalDecoder(tk_cfg, tk_loc.decoder_query, tk_loc.sequence_output)
       IN  IF d.status # "ok" THEN TkRaise(d.status)
           ELSE /\ tk_loc' = [tk_loc EXCEPT !.decoder_logits = d.shape, !.logits = d.shape]
                /\ tk_pc' = IF tk_cfg.model = "optical_flow" THEN "labels" ELSE "postprocess"
                /\ tk_out' = tk_out
    /\ UNCHANGED <<tk_cfg, tk_args, notTk>>

\* lines 864-865: the multimodal postprocessor splits the decoder's output by
\* output_modality_sizes
TkPostprocess ==
    /\ tk_pc = "postprocess"
    /\ LET p == MultimodalPostprocessor(tk_cfg, tk_loc.decoder_logits, tk_loc.query_tokens,
                                        tk_loc.output_modality_sizes)
       IN  IF FirstError(<<"audio", "image", "label">>, p.outputs) # "ok"
           THEN TkRaise(FirstError(<<"audio", "image", "label">>, p.outputs))
           ELSE /\ tk_loc' = [tk_loc EXCEPT
                                !.slices = p.slices,
                                !.logits = [m \in DOMAIN p.outputs |-> p.outputs[m].shape]]
                /\ tk_pc' = "labels"
                /\ tk_out' = tk_out
    /\ UNCHANGED <<tk_cfg, tk_args, notTk>>

\* the task model's forward after self.perceiver returned (lines 1275-1291 and
\* 1451-1467): labels raise NotImplementedError; otherwise the output is
\* returned, with loss = None in the dict form and without a loss in the
\* tuple form
TkLabels ==
    /\ tk_pc = "labels"
    /\ IF tk_args.labels THEN TkRaise("NotImplementedError")
       ELSE /\ tk_out' = [status |-> "ok",
                          loss |-> IF tk_args.return_dict THEN "None" ELSE "absent",
                          logits |-> tk_loc.logits]
            /\ tk_pc' = "done"
            /\ tk_loc' = tk_loc
    /\ UNCHANGED <<tk_cfg, tk_args, notTk>>

TkNext ==
    \/ TkCall
    \/ TkPreprocess
    \/ TkEncoder
    \/ TkDecoderQuery
    \/ TkDecoder
    \/ TkPostprocess
    \/ TkLabels

\* ------------------------------------------------------------------ PerceiverImagePreprocessor

\* math.ceil(a / b) for naturals, b >= 1; also the length of range(0, a, b)
CeilDiv(a, b) == (a + b - 1) \div b

\* position_embeddings.num_dimensions: the rank of a trainable table's
\* index_dims, or of a Fourier encoding's max_resolution
NumDimensions(pos) ==
    IF pos.type = "trainable" THEN Len(pos.index_dims) ELSE Len(pos.max_resolution)

\* position_embeddings.output_size() without argument
PositionOutputSize(pos) ==
    IF pos.type = "trainable" THEN TrainableOutputSize(pos) ELSE FourierOutputSize(pos, None)

\* PerceiverImagePreprocessor.num_channels, the base channel count (lines
\* 2456-2470)
ImageInpDim(a) ==
    IF a.conv_after_patching \/ a.prep_type \in {"conv1x1", "conv"} THEN a.out_channels
    ELSE IF a.prep_type = "pixels"
    THEN IF ~(NumDimensions(a.pos) > 2) THEN CeilDiv(a.in_channels, a.spatial_downsample)
         ELSE a.in_channels
    ELSE IF NumDimensions(a.pos) > 2
    THEN a.in_channels * a.spatial_downsample * a.spatial_downsample * a.temporal_downsample
    ELSE a.in_channels * a.spatial_downsample * a.spatial_downsample

\* PerceiverImagePreprocessor.num_channels, the position width (lines 2449-2452)
ImagePosDim(a) ==
    IF a.project_pos_dim > 0 THEN a.project_pos_dim ELSE PositionOutputSize(a.pos)

\* PerceiverImagePreprocessor.num_channels
ImageNumChannels(a) ==
    IF a.concat_or_add_pos = "add" THEN ImagePosDim(a) ELSE ImageInpDim(a) + ImagePosDim(a)

\* lines 2527-2536, prep_type "pixels": a rank-4 input is sliced as
\* inputs[::s, ::s], a rank-5 input as inputs[:, ::t, :, ::s, ::s]
PixelsDownsample(a, inputs) ==
    IF Len(inputs) = 4
    THEN ShapeOk(<<CeilDiv(inputs[1], a.spatial_downsample),
                   CeilDiv(inputs[2], a.spatial_downsample), inputs[3], inputs[4]>>)
    ELSE IF Len(inputs) = 5
    THEN ShapeOk(<<inputs[1], CeilDiv(inputs[2], a.temporal_downsample), inputs[3],
                   CeilDiv(inputs[4], a.spatial_downsample),
                   CeilDiv(inputs[5], a.spatial_downsample)>>)
    ELSE ShapeErr("ValueError")

\* self.conv_after_patches: nn.Linear(conv_after_patching_in_channels,
\* out_channels), or the identity
ConvAfterPatches(a, x) ==
    IF a.conv_after_patching
    THEN LinearOn(a.conv_after_patching_in_channels, a.out_channels, x)
    ELSE x

\* lines 2514-2552: the featurization of each prep_type. The convolutions
\* take rank-4 inputs only.
ImageFeaturize(a, inputs) ==
    IF a.prep_type = "conv"
    THEN IF Len(inputs) # 4 THEN ShapeErr("RuntimeError") ELSE Conv2DDownsample(inputs)
    ELSE IF a.prep_type = "conv1x1"
    THEN IF Len(inputs) # 4 THEN ShapeErr("RuntimeError")
         ELSE Conv1x1(a.in_channels, a.out_channels, a.spatial_downsample, inputs)
    ELSE IF a.prep_type = "pixels" THEN PixelsDownsample(a, inputs)
    ELSE ConvAfterPatches(a,
             SqueezeTime(SpaceToDepth(inputs, a.temporal_downsample, a.spatial_downsample)))

\* lines 2554-2561: unless prep_type is "patches", the channels move last
ChannelsLast(a, x) ==
    IF x.status # "ok" \/ a.prep_type = "patches" THEN x
    ELSE IF Len(x.shape) = 4 THEN ShapeOk(MoveChannelsLast(x.shape))
    ELSE IF Len(x.shape) = 5
    THEN ShapeOk(<<x.shape[1], x.shape[2], x.shape[4], x.shape[5], x.shape[3]>>)
    ELSE ShapeErr("ValueError")

\* one axis of a broadcast: equal sizes, or one of them 1
BroadcastAxis(rest, x, y) ==
    IF rest.status # "ok" THEN rest
    ELSE IF x = y \/ y = 1 THEN ShapeOk(Append(rest.shape, x))
    ELSE IF x = 1 THEN ShapeOk(Append(rest.shape, y))
    ELSE ShapeErr("RuntimeError")

RECURSIVE BroadcastShapes(_, _)
\* the shape of a + b: the shapes are aligned on the right
BroadcastShapes(a, b) ==
    IF a = <<>> THEN ShapeOk(b)
    ELSE IF b = <<>> THEN ShapeOk(a)
    ELSE BroadcastAxis(BroadcastShapes(Front(a), Front(b)), Last(a), Last(b))

\* the position encoding _build_network_inputs constructs (lines 2487-2491)
\* for a batch and index dimensions. In generate_fourier_features the
\* product pos[0][:, :, None] * freq_bands[None] broadcasts the rank of the
\* positions against the rank of max_resolution.
PositionEncoding(pos, batch_size, index_dims) ==
    IF pos.type = "trainable" THEN ShapeOk(TrainableForward(pos, batch_size).shape)
    ELSE IF Len(index_dims) # Len(pos.max_resolution)
            /\ Len(index_dims) # 1 /\ Len(pos.max_resolution) # 1
    THEN ShapeErr("RuntimeError")
    ELSE ShapeOk(FourierForward(pos, index_dims, batch_size, FALSE, <<>>).shape)

\* build_position_encoding, line 1503, and _build_network_inputs, line 2496:
\* positions_projection is nn.Linear(out_channels, project_pos_dim) when
\* project_pos_dim > 0, the identity otherwise
PositionsProjection(a, pos_enc) ==
    IF a.project_pos_dim > 0 THEN LinearOn(a.out_channels, a.project_pos_dim, pos_enc)
    ELSE pos_enc

\* lines 2504-2507: concatenation on the last axis, or addition
ConcatOrAdd(a, inputs, pos_enc) ==
    IF pos_enc.status # "ok" THEN pos_enc
    ELSE IF a.concat_or_add_pos = "concat" THEN CatLast(inputs, pos_enc.shape)
    ELSE BroadcastShapes(inputs, pos_enc.shape)

\* PerceiverImagePreprocessor._build_network_inputs on x [B, ..., C]
ImageBuildNetworkInputs(a, x) ==
    IF x.status # "ok" THEN x
    ELSE ConcatOrAdd(a,
             IF Len(x.shape) > 3 THEN FlattenIndexDims(x.shape) ELSE x.shape,
             PositionsProjection(a,
                 PositionEncoding(a.pos, x.shape[1], SubSeq(x.shape, 2, Len(x.shape) - 1))))

\* PerceiverImagePreprocessor.forward
ImageForward(a, inputs) ==
    ImageBuildNetworkInputs(a, ChannelsLast(a, ImageFeaturize(a, inputs)))

\* PerceiverMultimodalPreprocessor.num_channels for the modalities image (an
\* image preprocessor) and label (a one-hot preprocessor)
SharedNumChannels(a) ==
    MaxOver([image |-> ImageNumChannels(a), label |-> a.num_labels]) + a.min_padding_size

\* PerceiverMultimodalPreprocessor.forward, lines 2728-2746, for these two
\* modalities: each preprocessed and padded to the shared width
ImageAndLabelPadded(a, inputs) ==
    [image |-> PadTo(ImageNumChannels(a), SharedNumChannels(a), ImageForward(a, inputs)),
     label |-> PadTo(a.num_labels, SharedNumChannels(a),
                     OneHotPreprocess(<<inputs[1], a.num_labels>>))]

\* lines 2759-2763: torch.cat of the padded modalities along the token axis
CatModalities(padded) ==
    IF FirstError(<<"image", "label">>, padded) # "ok"
    THEN ShapeErr(FirstError(<<"image", "label">>, padded))
    ELSE IF padded.image.shape[1] # padded.label.shape[1]
            \/ padded.image.shape[3] # padded.label.shape[3]
    THEN ShapeErr("RuntimeError")
    ELSE ShapeOk(<<padded.image.shape[1], padded.image.shape[2] + padded.label.shape[2],
                   padded.image.shape[3]>>)

\* the inputs: an image [B, C, 8, 8] or a video [B, 2, C, 8, 8]
PpInputs(video, b) ==
    IF video THEN <<b, 2, ImageInChannels, 8, 8>> ELSE <<b, ImageInChannels, 8, 8>>

\* the position-encoding kwargs: a Fourier encoding whose max_resolution has
\* rank `rank`, or a trainable table
PpPositions(rank) ==
    [type : {"fourier"}, num_bands : {2},
     max_resolution : {IF rank = 3 THEN <<2, 8, 8>> ELSE <<8, 8>>},
     concat_pos : BOOLEAN, sine_only : {FALSE}, index_dims : {<<1>>}, num_channels : {0}]
    \cup
    [type : {"trainable"}, num_bands : {1}, max_resolution : {<<>>},
     concat_pos : {TRUE}, sine_only : {FALSE}, index_dims : {<<1>>},
     num_channels : {ConvOutChannels, 32}]

\* the arguments before the sizes that depend on the input are filled in
PpRawArgs ==
    [prep_type : {"conv", "conv1x1", "pixels", "patches"},
     spatial_downsample : {1, 2, 4}, temporal_downsample : {1, 2},
     in_channels : {ImageInChannels}, out_channels : {ConvOutChannels},
     conv_after_patching : BOOLEAN, conv_after_patching_in_channels : {54},
     concat_or_add_pos : {"concat", "add"}, project_pos_dim : {-1, 5},
     pos : PpPositions(2) \cup PpPositions(3),
     num_labels : {3}, min_padding_size : {4},
     video : BOOLEAN, batch_size : 1..MaxBatch]

\* the features of the input, before the positions are built
PpFeatures(a) == ChannelsLast(a, ImageFeaturize(a, PpInputs(a.video, a.batch_size)))

\* The caller sizes the arguments for the input: conv_after_patching_in_channels
\* is the width of a patch, a trainable table has the feature grid as index_dims, and
\* max_resolution has the rank of the feature grid.
PpSized(a) ==
    LET patch == SqueezeTime(SpaceToDepth(PpInputs(a.video, a.batch_size),
                                          a.temporal_downsample, a.spatial_downsample))
        f == PpFeatures([a EXCEPT !.conv_after_patching_in_channels = Last(patch.shape)])
    IN  [a EXCEPT !.conv_after_patching_in_channels = Last(patch.shape),
                  !.pos.index_dims =
                      IF f.status = "ok" /\ a.pos.type = "trainable"
                      THEN SubSeq(f.shape, 2, Len(f.shape) - 1)
                      ELSE @]

\* whether the rank of max_resolution is that of the feature grid
PpRankFits(a) ==
    (a.pos.type = "fourier" /\ PpFeatures(a).status = "ok")
        => Len(a.pos.max_resolution) = Len(PpFeatures(a).shape) - 2

PpArgs == {a \in {PpSized(r) : r \in PpRawArgs} : PpRankFits(a)}

PpNoOutput ==
    [status |-> "none", num_channels |-> 0, features |-> ShapeErr("none"),
     forward |-> ShapeErr("none"),
     padded |-> [image |-> ShapeErr("none"), label |-> ShapeErr("none")],
     final |-> ShapeErr("none")]

PpFrozen ==
    /\ pp_args = [prep_type |-> "none"]
    /\ pp_pc = "new"
    /\ pp_out = PpNoOutput

\* the arguments of a construction that has not run yet
PpInit ==
    /\ pp_args \in PpArgs
    /\ pp_pc = "new"
    /\ pp_out = PpNoOutput

\* PerceiverImagePreprocessor(config, prep_type, ...): the constructor's checks
PpConstruct ==
    /\ pp_pc = "new"
    /\ IF ConvCheck(pp_args) = "ok"
       THEN /\ pp_pc' = "constructed"
            /\ pp_out' = [pp_out EXCEPT !.status = "ok"]
       ELSE /\ pp_pc' = "failed"
            /\ pp_out' = [pp_out EXCEPT !.status = ConvCheck(pp_args)]
    /\ UNCHANGED <<pp_args, notPp>>

\* preprocessor.num_channels is read
PpNumChannels ==
    /\ pp_pc = "constructed"
    /\ pp_out' = [pp_out EXCEPT !.num_channels = ImageNumChannels(pp_args)]
    /\ pp_pc' = "sized"
    /\ UNCHANGED <<pp_args, notPp>>

\* preprocessor(inputs)
PpForward ==
    /\ pp_pc = "sized"
    /\ pp_out' = [pp_out EXCEPT
                    !.features = PpFeatures(pp_args),
                    !.forward = ImageForward(pp_args,
                                             PpInputs(pp_args.video, pp_args.batch_size))]
    /\ pp_pc' = "forwarded"
    /\ UNCHANGED <<pp_args, notPp>>

\* a PerceiverMultimodalPreprocessor with modalities image (this preprocessor)
\* and label (a one-hot preprocessor) is called on the same image and labels
PpMultimodal ==
    /\ pp_pc = "forwarded"
    /\ pp_out' = [pp_out EXCEPT
                    !.padded = ImageAndLabelPadded(pp_args,
                                   PpInputs(pp_args.video, pp_args.batch_size)),
                    !.final = CatModalities(
                                  ImageAndLabelPadded(pp_args,
                                      PpInputs(pp_args.video, pp_args.batch_size)))]
    /\ pp_pc' = "padded"
    /\ UNCHANGED <<pp_args, notPp>>

PpNext ==
    \/ PpConstruct
    \/ PpNumChannels
    \/ PpForward
    \/ PpMultimodal

\* ------------------------------------------------------------------ DETR checkpoint conversion

\* a key of a state dict, "<module>.<param>"
Key(module, param) == [module |-> module, param |-> param]

\* rename_keys_object_detection_model, lines 135-144, row by row as written
rename_keys_object_detection_model ==
    <<[src |-> Key("class_embed", "weight"), dest |-> Key("class_labels_classifier", "weight")],
      [src |-> Key("class_embed", "bias"), dest |-> Key("class_labels_classifier", "bias")],
      [src |-> Key("bbox_embed.layers.0", "weight"),
       dest |-> Key("bbox_predictor.layers.0", "weight")],
      [src |-> Key("bbox_embed.layers.0", "bias"),
       dest |-> Key("bbox_predictor.layers.0", "bias")],
      [src |-> Key("bbox_embed.layers.1", "weight"),
       dest |-> Key("bbox_predictor.layers.1", "weight")],
      [src |-> Key("bbox_embed.layers.1", "bias"),
       dest |-> Key("bbox_predictor.layers.1", "weight")],
      [src |-> Key("bbox_embed.layers.2", "weight"),
       dest |-> Key("bbox_predictor.layers.2", "weight")],
      [src |-> Key("bbox_embed.layers.2", "bias"),
       dest |-> Key("bbox_predictor.layers.2", "bias")]>>

\* A mutant: an entry already stored under the new key is kept.
rename_key_keeping(state_dict, old, new) ==
    [k \in (DOMAIN state_dict \ {old}) \cup {new} |->
        IF k \in DOMAIN state_dict \ {old} THEN state_dict[k] ELSE state_dict[old]]

\* rename_key, lines 93-95: val = state_dict.pop(old); state_dict[new] = val
rename_key(state_dict, old, new) ==
    [k \in (DOMAIN state_dict \ {old}) \cup {new} |->
        IF k = new THEN state_dict[old] ELSE state_dict[k]]

\* the source keys of the table
HeadKeys ==
    {rename_keys_object_detection_model[r].src :
        r \in 1..Len(rename_keys_object_detection_model)}

\* keys of the checkpoint the table does not name
OtherKeys == {Key("query_embed", "weight"), Key("input_proj", "weight"),
              Key("input_proj", "bias")}

\* the state dicts the renaming may be given: every tensor is identified by
\* the key it had in the original checkpoint; at most one key of the heads is
\* missing
RkStateDicts ==
    {[k \in ks |-> k] :
        ks \in {(HeadKeys \ missing) \cup others :
                   missing \in {{}} \cup {{h} : h \in HeadKeys},
                   others \in SUBSET OtherKeys}}

RkFrozen ==
    /\ rk_orig = <<>>
    /\ rk_state_dict = <<>>
    /\ rk_i = 0
    /\ rk_status = "idle"

\* state_dict as lines 183-188 leave it
RkInit ==
    /\ rk_orig \in RkStateDicts
    /\ rk_state_dict = rk_orig
    /\ rk_i = 0
    /\ rk_status = "running"

\* lines 190-191: one iteration of `for src, dest in
\* rename_keys_object_detection_model: rename_key(state_dict, src, dest)`;
\* dict.pop raises KeyError for a key that is not there
RkRenameKey ==
    /\ rk_status = "running"
    /\ rk_i < Len(rename_keys_object_detection_model)
    /\ IF rename_keys_object_detection_model[rk_i + 1].src \in DOMAIN rk_state_dict
       THEN /\ rk_state_dict' =
                  rename_key(rk_state_dict,
                             rename_keys_object_detection_model[rk_i + 1].src,
                             rename_keys_object_detection_model[rk_i + 1].dest)
            /\ rk_i' = rk_i + 1
            /\ rk_status' = IF rk_i + 1 = Len(rename_keys_object_detection_model)
                            THEN "done" ELSE "running"
       ELSE /\ rk_status' = "KeyError"
            /\ UNCHANGED <<rk_state_dict, rk_i>>
    /\ UNCHANGED <<rk_orig, notRk>>

RkNext ==
    \/ RkRenameKey

\* ------------------------------------------------------------------ specifications

InitEncoder == EncInit /\ PosFrozen /\ RsFrozen /\ AtFrozen /\ FwFrozen /\ CtFrozen /\ LyFrozen /\ TkFrozen /\ PpFrozen /\ RkFrozen

SpecEncoder == InitEncoder /\ [][EncNext]_vars

InitPos == PosInit /\ EncFrozen /\ RsFrozen /\ AtFrozen /\ FwFrozen /\ CtFrozen /\ LyFrozen /\ TkFrozen /\ PpFrozen /\ RkFrozen

SpecPos == InitPos /\ [][PosNext]_vars

InitRestructure == RsInit /\ EncFrozen /\ PosFrozen /\ AtFrozen /\ FwFrozen /\ CtFrozen /\ LyFrozen /\ TkFrozen /\ PpFrozen /\ RkFrozen

SpecRestructure == InitRestructure /\ [][RsNext]_vars

InitAttn == AtInit /\ EncFrozen /\ PosFrozen /\ RsFrozen /\ FwFrozen /\ CtFrozen /\ LyFrozen /\ TkFrozen /\ PpFrozen /\ RkFrozen

SpecAttn == InitAttn /\ [][AtNext]_vars

InitForward == FwInit /\ EncFrozen /\ PosFrozen /\ RsFrozen /\ AtFrozen /\ CtFrozen /\ LyFrozen /\ TkFrozen /\ PpFrozen /\ RkFrozen

SpecForward == InitForward /\ [][FwNext]_vars

InitConstruct == CtInit /\ EncFrozen /\ PosFrozen /\ RsFrozen /\ AtFrozen /\ FwFrozen /\ LyFrozen /\ TkFrozen /\ PpFrozen /\ RkFrozen

SpecConstruct == InitConstruct /\ [][CtNext]_vars

InitLayer == LyInit /\ EncFrozen /\ PosFrozen /\ RsFrozen /\ AtFrozen /\ FwFrozen /\ CtFrozen /\ TkFrozen /\ PpFrozen /\ RkFrozen

SpecLayer == InitLayer /\ [][LyNext]_vars

InitTask == TkInit /\ EncFrozen /\ PosFrozen /\ RsFrozen /\ AtFrozen /\ FwFrozen /\ CtFrozen /\ LyFrozen /\ PpFrozen /\ RkFrozen

SpecTask == InitTask /\ [][TkNext]_vars

InitPreprocess == PpInit /\ EncFrozen /\ PosFrozen /\ RsFrozen /\ AtFrozen /\ FwFrozen /\ CtFrozen /\ LyFrozen /\ TkFrozen /\ RkFrozen

SpecPreprocess == InitPreprocess /\ [][PpNext]_vars

InitRename == RkInit /\ EncFrozen /\ PosFrozen /\ RsFrozen /\ AtFrozen /\ FwFrozen /\ CtFrozen /\ LyFrozen /\ TkFrozen /\ PpFrozen

SpecRename == InitRename /\ [][RkNext]_vars

\* ------------------------------------------------------------------ claims

\* the layers applied to produce a hidden state, in order
LayersOf(h) == [k \in 1..Len(h) |-> h[k].layer]

\* one cross-attention, then layers 1..N repeated B times
ExpectedLayers(B, N) ==
    [k \in 1..(1 + B * N) |-> IF k = 1 THEN CrossAttentionLayer ELSE ((k - 2) % N) + 1]

IsPrefix(s, t) == Len(s) <= Len(t) /\ \A k \in 1..Len(s) : s[k] = t[k]

\* C1: in PerceiverEncoder.forward exactly one cross-attention application is
\* followed by exactly num_blocks * num_self_attends_per_block self-attention
\* applications, layers 0..N-1 in order repeated num_blocks times; the layer
\* object at position i is the same object in every repetition, and the
\* encoder owns N self-attention layers whatever num_blocks is.
C1_EncoderWeightSharing ==
    LET B == enc_cfg.num_blocks
        N == enc_cfg.num_self_attends_per_block
    IN  /\ Len(self_attends) = N
        /\ Cardinality({self_attends[i] : i \in 1..Len(self_attends)} \cup {cross_attention}) = N + 1
        /\ IsPrefix(LayersOf(hidden_states), ExpectedLayers(B, N))
        /\ enc_pc \in {"return", "done"} => LayersOf(hidden_states) = ExpectedLayers(B, N)

\* a call with two blocks of two layers has returned
C1_Witness ==
    /\ enc_pc = "done"
    /\ enc_cfg.num_blocks = 2
    /\ enc_cfg.num_self_attends_per_block = 2
    /\ Len(hidden_states) = 5

\* The closed form of the Fourier encoding width:
\* num_bands * d * (1 if sine_only else 2) + (d if concat_pos else 0)
FourierClosedForm(cfg) ==
    cfg.num_bands * Len(cfg.max_resolution) * (IF cfg.sine_only THEN 1 ELSE 2)
        + (IF cfg.concat_pos THEN Len(cfg.max_resolution) ELSE 0)

\* C2: for a Basic decoder of either position-encoding type, decoder_query
\* called with a subsample index list of length K returns a query tensor with
\* exactly K entries along the token axis.
C2_SubsampledQueryHasKTokens ==
    (pe_op.name = "decoder_query" /\ pe_op.subsampled /\ pe_out.status = "ok")
        => (Len(pe_out.shape) = 3 /\ pe_out.shape[2] = Len(pe_op.points))

\* the query that full-grid decoding (no subsampling) builds over the
\* decoder's output_index_dims
FullGridQuery ==
    DecoderQuery(pe_cfg, <<pe_op.batch_size, TableChannels>> \o pe_cfg.index_dims,
                 pe_op.has_iwp, FALSE, <<>>)

\* C3: for a Basic decoder, the query entry produced for a subsampled flat
\* index i equals the entry full-grid decoding produces at flat index i: the
\* coordinate derived from i by unravelling and mapping to [-1, 1] is the
\* coordinate the full linear grid assigns to position i, on every axis.
C3_SubsampledEntryMatchesFullGrid ==
    (pe_op.name = "decoder_query" /\ pe_op.subsampled /\ pe_out.status = "ok")
        => \A k \in 1..Len(pe_op.points) :
              /\ k <= Len(pe_out.rows)
              /\ pe_out.rows[k] = FullGridQuery.rows[pe_op.points[k] + 1]

\* C8: for every Fourier configuration, the width output_size reports, as each
\* consumer calls it, equals the closed form and equals the last-dimension
\* size of the tensor forward generates for the same encoder.
C8_FourierOutputSizeMatches ==
    (pe_op.name = "output_size" /\ pe_cfg.type = "fourier")
        => /\ pe_out.shape[1] = FourierClosedForm(pe_cfg)
           /\ pe_out.shape[1] =
                Last(FourierForward(pe_cfg, pe_cfg.max_resolution, 1, FALSE, <<>>).shape)

\* C9: both position-encoding variants, given index dimensions and a batch
\* size, return a tensor of rank 3 with shape (batch, product(index_dims),
\* output_width), for every combination of concat_pos and sine_only; the entry
\* at flat index i carries the linear-grid coordinates of the row-major
\* unravelling of i.
C9_PositionEncodingShape ==
    pe_op.name = "forward"
        => LET n == Prod(pe_cfg.index_dims)
               width == IF pe_cfg.type = "trainable" THEN pe_cfg.num_channels
                        ELSE FourierClosedForm(pe_cfg)
           IN  /\ pe_out.shape = <<pe_op.batch_size, n, width>>
               /\ pe_cfg.type = "fourier" =>
                    \A i \in 0..(n - 1) :
                       LET multi == Unravel(i, pe_cfg.index_dims)
                       IN  pe_out.rows[i + 1].pos =
                             [a \in 1..Len(multi) |-> Linspace(pe_cfg.index_dims[a], multi[a])]

\* C4: restructure is a two-sided inverse of concatenation: with the sizes the
\* preprocessor recorded, partitioning the concatenated sequence and
\* re-concatenating the pieces in alphabetical order reproduces the sequence,
\* and restructuring the concatenation of the per-modality pieces returns
\* each original piece.
C4_RestructureInverse ==
    rs_pc = "restructured"
        => /\ DOMAIN rs_parts = DOMAIN rs_padded
           /\ CatTokens(SortedKeys(DOMAIN rs_parts), rs_parts) = rs_final
           /\ \A m \in DOMAIN rs_padded : rs_parts[m] = rs_padded[m]

\* three modalities configured in non-alphabetical order, of different sizes,
\* have been concatenated and restructured
C4_Witness ==
    /\ rs_pc = "restructured"
    /\ rs_cfg.modalities = <<"label", "audio", "image">>
    /\ rs_sizes["audio"] # rs_sizes["image"]
    /\ Len(rs_final) = rs_sizes["audio"] + rs_sizes["image"] + rs_sizes["label"]

\* C10: constructing an attention module whose resolved qk_channels or
\* v_channels (qk_channels defaulting to q_dim, v_channels to qk_channels) is
\* not evenly divisible by num_heads raises ValueError, and construction
\* succeeds only when both are divisible.
C10_AttentionDivisibility ==
    at_obj.status # "none"
        => LET qk == IF at_args.qk_channels = None THEN at_args.q_dim ELSE at_args.qk_channels
               v == IF at_args.v_channels = None THEN qk ELSE at_args.v_channels
               divisible == \E a \in 1..qk, b \in 1..v :
                               a * at_args.num_heads = qk /\ b * at_args.num_heads = v
           IN  /\ at_obj.status = "ValueError" <=> ~divisible
               /\ at_obj.status = "ok" <=> divisible

\* C10's case: a construction with two heads was refused only because of
\* v_channels = 3 (qk_channels = 4 is divisible)
C10_WitnessRejected ==
    /\ at_obj.status = "ValueError"
    /\ at_args.num_heads = 2
    /\ at_args.qk_channels = 4
    /\ at_args.v_channels = 3

\* --- PerceiverModel.forward (SpecForward)

\* the running call's batch size and the number of tokens the encoder sees
FwBatch == fw_args.inputs[1]
FwSeqLen == FwTokens(fw_cfg, fw_args.inputs)

\* C5: PerceiverForMaskedLM.forward on a text input (batch, L), with
\* 1 <= L <= config.max_position_embeddings, returns logits of shape
\* (batch, L, vocab_size), and the decoder query has L positions.
C5_MaskedLMLogitsFollowInput ==
    (fw_cfg.task = "mlm" /\ fw_args.inputs # <<>>
        /\ fw_args.inputs[2] <= fw_cfg.max_position_embeddings)
        => /\ fw_loc.decoder_query # <<>> => fw_loc.decoder_query[2] = fw_args.inputs[2]
           /\ fw_pc = "done" =>
                fw_out.logits = <<fw_args.inputs[1], fw_args.inputs[2], fw_cfg.vocab_size>>

\* the additive mask of a call in which every token is attended
AllZeroBias == Mask([i \in 1..FwBatch |-> [k \in 1..FwSeqLen |-> 0]])

\* the running call passes no mask or an all-ones mask
FwUnmasked == fw_args.attention_mask \in {NoMask, OnesMask(FwBatch, FwSeqLen)}

\* C6: a call with an all-ones attention mask and the same call with no
\* attention mask give the encoder's cross-attention the same additive mask
\* (all zeros), and end the same way: the same outputs, or the same error.
C6_OnesMaskEquivalentToNoMask ==
    /\ (fw_run >= 1 /\ FwUnmasked /\ fw_loc.encoder_outputs.status = "ok")
          => fw_loc.encoder_outputs.mask = AllZeroBias
    /\ (fw_run = 2 /\ fw_pc \in {"done", "raised"}
          /\ {fw_first.attention_mask, fw_args.attention_mask}
                = {NoMask, OnesMask(FwBatch, FwSeqLen)})
          => /\ fw_out = fw_first.out
             /\ fw_out.status = "ok" => fw_out.encoder_mask = AllZeroBias

\* C6's case: a masked-language-model call with no mask returned, and the same
\* call with an all-ones mask over two tokens returned as well.
C6_Witness ==
    /\ fw_run = 2 /\ fw_pc = "done" /\ fw_cfg.task = "mlm"
    /\ fw_first.attention_mask = NoMask
    /\ fw_args.attention_mask = OnesMask(2, 2)
    /\ fw_first.out.status = "ok"

\* C7: the image-classification model maps pixels (batch, 3, H, W) to logits
\* (batch, num_labels): the decoder query has exactly one token, the decoder
\* removes the length-1 token axis, and a call whose image has
\* config.image_size ** 2 pixels, on a model whose d_model is the preprocessor's
\* width and whose feed-forward blocks do not widen, does return.
C7_ImageClassificationLogits ==
    (fw_cfg.task = "image_classification" /\ fw_run >= 1)
        => /\ fw_args.inputs[2] = ImageInChannels
           /\ fw_loc.decoder_query # <<>>
                => fw_loc.decoder_query = <<FwBatch, 1, fw_cfg.d_latents>>
           /\ fw_pc \in {"return", "done"}
                => fw_loc.logits = <<FwBatch, fw_cfg.num_labels>>
           /\ fw_pc = "done" => fw_out.logits = <<FwBatch, fw_cfg.num_labels>>
           /\ (fw_pc = "raised"
                 /\ fw_cfg.d_model = ImageOutChannels + ImageOutChannels
                 /\ FwSeqLen = fw_cfg.image_size * fw_cfg.image_size)
                => fw_cfg.self_attention_widening_factor # 1

\* C7's case: a batch of two 2x2 images was classified.
C7_Witness ==
    /\ fw_cfg.task = "image_classification" /\ fw_pc = "done"
    /\ fw_args.inputs = <<2, ImageInChannels, 2, 2>>
    /\ fw_out.logits = <<2, fw_cfg.num_labels>>

\* the PerceiverEncoder constructor has run
EncoderConstructed == ct_args.kind = "encoder" /\ ct_obj # NotConstructed

\* C11: constructing PerceiverEncoder raises ValueError, before any layer is
\* built, whenever d_latents is not divisible by num_self_attention_heads or
\* by num_cross_attention_heads.
C11_EncoderRejectsIndivisibleHeads ==
    (/\ EncoderConstructed
     /\ \/ ct_args.d_latents % ct_args.num_self_attention_heads # 0
        \/ ct_args.d_latents % ct_args.num_cross_attention_heads # 0)
    => (ct_obj.status = "ValueError" /\ ct_obj.built = <<>>)

\* a construction rejected for the cross-attention head count alone
C11_WitnessCrossHeads ==
    /\ EncoderConstructed
    /\ ct_args.d_latents % ct_args.num_self_attention_heads = 0
    /\ ct_args.d_latents % ct_args.num_cross_attention_heads # 0
    /\ ct_obj.status = "ValueError"

\* 4^k for some k >= 0
PowerOf4(n) == \E k \in 0..3 : n = 4^k

\* the constructor's arguments choose a position encoding
HasPositionEncoding(a) ==
    a.kind \in {"position_encoding", "image_preprocessor", "audio_preprocessor"}

\* the position encoding chosen is unknown, or its keyword arguments are missing
PositionEncodingError(a) ==
    \/ a.position_encoding_type \notin {"trainable", "fourier"}
    \/ a.position_encoding_type = "trainable" /\ a.trainable_kwargs # "given"
    \/ a.position_encoding_type = "fourier" /\ a.fourier_kwargs # "given"

\* prep_type or concat_or_add_pos is invalid, or the convolutional front-end
\* is asked for a downsampling it does not support
PreprocessorError(a) ==
    \/ a.kind = "image_preprocessor"
          /\ a.prep_type \notin {"conv", "patches", "pixels", "conv1x1"}
    \/ a.kind = "audio_preprocessor" /\ a.prep_type # "patches"
    \/ a.kind \in {"image_preprocessor", "audio_preprocessor"}
          /\ a.concat_or_add_pos \notin {"concat", "add"}
    \/ a.kind = "image_preprocessor" /\ a.prep_type = "conv"
          /\ (~PowerOf4(a.spatial_downsample) \/ a.temporal_downsample # 1)

\* C15: every configuration error is raised as ValueError at construction
\* time: an unknown position_encoding_type, a chosen position encoding whose
\* keyword arguments are missing, an invalid prep_type or concat_or_add_pos
\* of the image or audio preprocessor, and a convolutional front-end whose
\* spatial_downsample is not a power of 4 or whose temporal_downsample is
\* not 1.
C15_ConfigurationErrorsRaiseValueError ==
    (/\ HasPositionEncoding(ct_args)
     /\ ct_obj # NotConstructed
     /\ PositionEncodingError(ct_args) \/ PreprocessorError(ct_args))
    => ct_obj.status = "ValueError"

\* a convolutional front-end rejected for its temporal downsampling alone
C15_WitnessTemporalDownsample ==
    /\ ct_args.kind = "image_preprocessor"
    /\ ct_obj.status = "ValueError"
    /\ ct_args.prep_type = "conv"
    /\ ct_args.concat_or_add_pos = "concat"
    /\ ct_args.spatial_downsample = 4
    /\ ct_args.temporal_downsample = 2
    /\ ~PositionEncodingError(ct_args)

\* the running call has entered its width validation
FwValidated == \E k \in 1..Len(fw_trace) : fw_trace[k] = "validation"

\* the call raised in its width validation: no later stage was entered
FwRaisedAtValidation ==
    /\ fw_pc = "raised"
    /\ fw_trace # <<>>
    /\ fw_trace[Len(fw_trace)] = "validation"

\* C12: when the trailing dimension of the preprocessed (or, without a
\* preprocessor, raw) input differs from config.d_model, forward raises
\* ValueError before the embeddings, encoder, decoder or postprocessor run
\* and returns no output; when it matches, the validation raises nothing.
C12_WidthValidation ==
    FwValidated =>
        IF Last(fw_loc.inputs) # fw_cfg.d_model
        THEN /\ FwRaisedAtValidation
             /\ fw_out = [FwNoOutput EXCEPT !.status = "ValueError"]
             /\ fw_loc.embedding_output = <<>>
             /\ fw_loc.encoder_outputs.status = "none"
             /\ fw_loc.decoder_query = <<>>
             /\ fw_loc.logits = <<>>
        ELSE ~FwRaisedAtValidation

\* the output of a preprocessor is rejected for its width
C12_WitnessPreprocessedWidth ==
    /\ FwRaisedAtValidation
    /\ HasPreprocessor(fw_cfg)
    /\ fw_out.status = "ValueError"

\* the stages of PerceiverModel.forward, in the order of the code
StageOrder ==
    <<"preprocessor", "validation", "mask", "embeddings", "encoder",
      "decoder_query", "decoder", "postprocessor">>

StageRank(stage) == CHOOSE k \in 1..Len(StageOrder) : StageOrder[k] = stage

\* the stages a call that returns goes through
StageConfigured(cfg, stage) ==
    IF stage = "preprocessor" THEN HasPreprocessor(cfg)
    ELSE IF stage \in {"decoder_query", "decoder"} THEN HasDecoder(cfg)
    ELSE IF stage = "postprocessor" THEN HasDecoder(cfg) /\ HasPostprocessor(cfg)
    ELSE TRUE

\* C13: in every forward call the stages run at most once each and strictly
\* in the order preprocessor, width validation, mask construction,
\* embeddings, encoder, decoder query, decoder, postprocessor; the last
\* three run only when a decoder is configured, and with no decoder the
\* returned logits are None even if a postprocessor is configured.
C13_StagesInOrder ==
    /\ \A i, j \in 1..Len(fw_trace) :
          i < j => StageRank(fw_trace[i]) < StageRank(fw_trace[j])
    /\ \A k \in 1..Len(fw_trace) :
          fw_trace[k] \in {"decoder_query", "decoder", "postprocessor"} => HasDecoder(fw_cfg)
    /\ fw_pc = "done" =>
          /\ \A k \in 1..Len(StageOrder) :
                StageConfigured(fw_cfg, StageOrder[k])
                    <=> (\E i \in 1..Len(fw_trace) : fw_trace[i] = StageOrder[k])
          /\ ~HasDecoder(fw_cfg) => fw_out.logits = <<>>

\* a model with a postprocessor and no decoder has returned
C13_WitnessPostprocessorWithoutDecoder ==
    /\ fw_pc = "done"
    /\ ~HasDecoder(fw_cfg)
    /\ HasPostprocessor(fw_cfg)
    /\ fw_trace = <<"validation", "mask", "embeddings", "encoder">>
    /\ fw_out.logits = <<>>

\* the multimodal preprocessor has returned
RsPreprocessed == rs_pc \in {"preprocessed", "restructured"}

RECURSIVE SumOver(_, _)
\* the sum of f over the set S of its keys
SumOver(f, S) ==
    IF S = {} THEN 0
    ELSE LET m == CHOOSE x \in S : TRUE IN f[m] + SumOver(f, S \ {m})

\* the modalities of the configuration that precede m alphabetically
AlphabeticallyBefore(m) ==
    {x \in Range(rs_cfg.modalities) : AlphaRank(x) < AlphaRank(m)}

\* C17: the modality-size map the multimodal preprocessor returns has one
\* entry per configured modality, equal to that modality's token count; the
\* sizes sum to the length of the concatenated sequence; and modality m
\* occupies the contiguous slice starting at the sum of the sizes of the
\* modalities that precede it alphabetically, whatever the configuration
\* order.
C17_ModalitySizesLocateSlices ==
    RsPreprocessed =>
        /\ DOMAIN rs_sizes = Range(rs_cfg.modalities)
        /\ \A m \in DOMAIN rs_sizes : rs_sizes[m] = Len(rs_padded[m])
        /\ SumOver(rs_sizes, DOMAIN rs_sizes) = Len(rs_final)
        /\ \A m \in DOMAIN rs_sizes :
              LET start == SumOver(rs_sizes, AlphabeticallyBefore(m))
              IN  SubSeq(rs_final, start + 1, start + rs_sizes[m]) = rs_padded[m]

\* three modalities configured in reverse alphabetical order, of different sizes
C17_WitnessReverseOrder ==
    /\ RsPreprocessed
    /\ rs_cfg.modalities = <<"label", "image", "audio">>
    /\ rs_sizes["audio"] # rs_sizes["label"]

\* the running call is the second of two calls with the same input and the
\* same attention mask, and has ended
FwRepeated ==
    /\ fw_run = 2
    /\ fw_pc \in {"done", "raised"}
    /\ fw_first.attention_mask = fw_args.attention_mask

\* C14 (as stated): a forward call leaves no state behind: the latent array and
\* every parameter and buffer, those of the convolutional front-end included,
\* are after the call what they were before it, and two consecutive calls on
\* the same input return the same result.
C14_NoStateLeftBehind ==
    /\ fw_module = FwModuleInit(fw_module.training)
    /\ FwRepeated => fw_out = fw_first.out

\* C14 (amended): the latent array is never changed; in evaluation mode every
\* buffer is after the call what it was before it; in training mode the only
\* state a call leaves behind is in the buffers of the front-end's batch
\* normalisation, which count one batch per call that reached it; and in
\* either mode two consecutive calls on the same input and mask end the same
\* way.
C14_NoStateLeftBehindInEvaluationMode ==
    /\ fw_module.latents = "initial"
    /\ ~fw_module.training => fw_module = FwModuleInit(FALSE)
    /\ fw_cfg.task # "image_classification_conv" => fw_module.batchnorm = BatchNormInit
    /\ fw_module.batchnorm.num_batches_tracked <= fw_run
    /\ Len(fw_module.batchnorm.running_stats) = fw_module.batchnorm.num_batches_tracked
    /\ FwRepeated => fw_out = fw_first.out

\* C14's case: the model with the convolutional front-end, in evaluation mode,
\* returned twice on the same image and mask, normalising by its running
\* statistics both times.
C14_WitnessConvTwice ==
    /\ FwRepeated /\ fw_pc = "done"
    /\ fw_cfg.task = "image_classification_conv"
    /\ ~fw_module.training
    /\ fw_first.out.status = "ok"
    /\ fw_out.normalized_by.source = "running"

\* the number of self-attention layer applications of a forward call
AppliedSelfAttends == enc_cfg.num_blocks * enc_cfg.num_self_attends_per_block

\* C19: the hidden_states the encoder returns hold one entry for the initial
\* state plus one per applied layer output, with no state recorded twice,
\* for every num_blocks >= 1 and num_self_attends_per_block >= 1, and
\* attentions holds one entry per applied self-attention layer. (The count
\* is accepted with or without the cross-attention among the layers.)
C19_HiddenStatesOncePerLayer ==
    enc_pc = "done" =>
        /\ enc_args.output_hidden_states =>
              /\ Len(all_hidden_states.items) \in {1 + AppliedSelfAttends,
                                                   2 + AppliedSelfAttends}
              /\ \A i, j \in 1..Len(all_hidden_states.items) :
                    i # j => all_hidden_states.items[i] # all_hidden_states.items[j]
        /\ enc_args.output_attentions =>
              Len(all_self_attentions.items) = AppliedSelfAttends

\* C20: every attention module's output has the width of its query input
\* (q_dim), for self- and cross-attention and any qk_channels / v_channels
\* that pass the divisibility checks, so the residual addition and the
\* following normalization of width q_dim are well-formed.
C20_AttentionOutputHasQueryWidth ==
    ly_out.status = "done" =>
        /\ ly_out.projected.status = "ok"
        /\ Last(ly_out.projected.shape) = ly_args.q_dim
        /\ ly_out.attention_output.status = "ok"
        /\ LayerNorm(ly_args.q_dim, ly_out.attention_output.shape).status = "ok"

\* the call of the task model has ended
TkEnded == tk_pc \in {"done", "raised"}

\* C16: calling the optical-flow model or the multimodal-autoencoding model
\* with labels always ends in NotImplementedError, with no output and no
\* loss; with labels absent the same call returns an output whose loss is None
\* (the tuple form leaves a None loss out).
C16_LabelsRaiseNotImplemented ==
    /\ (TkEnded /\ tk_args.labels)
          => (tk_out.status = "NotImplementedError" /\ tk_out.logits = <<>>)
    /\ (TkEnded /\ ~tk_args.labels)
          => (tk_out.status = "ok" /\ tk_out.loss \in {"None", "absent"})

\* the queries of modality m in the decoder query, in order
QueriesOf(m) ==
    LET IsOf(t) == t.modality = m IN SelectSeq(tk_loc.query_tokens, IsOf)

\* C18: in a multimodal forward call, the sizes by which the postprocessor
\* splits the decoder output sum to the length of the decoder output's token
\* axis, and each modality's slice holds exactly the outputs of that
\* modality's queries, whatever subsampled_output_points is.
C18_PostprocessorSlicesMatchQueries ==
    (tk_cfg.model = "multimodal" /\ tk_loc.slices # <<>>)
        => /\ SumSizes(tk_loc.output_modality_sizes) = tk_loc.decoder_logits[2]
           /\ \A m \in ModalityNames : tk_loc.slices[m] = QueriesOf(m)

\* C21: in the feed-forward block, for every widening_factor >= 1, the first
\* layer expands width input_size to widening_factor * input_size, the second
\* layer accepts that width and projects it back to input_size, so the block
\* maps width input_size to input_size.
C21_FeedForwardKeepsWidth ==
    ly_out.status = "done" =>
        /\ ly_out.dense1.status = "ok"
        /\ Last(ly_out.dense1.shape) = ly_args.widening_factor * ly_args.q_dim
        /\ ly_out.mlp.status = "ok"
        /\ Last(ly_out.mlp.shape) = ly_args.q_dim


\* forward has been called on the image preprocessor
PpForwarded == pp_pc \in {"forwarded", "padded"}

\* the position encoding forward builds for the features of the input
PpPositionEncoding ==
    PositionEncoding(pp_args.pos, pp_out.features.shape[1],
                     SubSeq(pp_out.features.shape, 2, Len(pp_out.features.shape) - 1))

\* C24, first half: for every configuration of the image preprocessor,
\* num_channels is the trailing width of the tokens forward returns.
C24_NumChannelsIsForwardWidth ==
    (PpForwarded /\ pp_out.forward.status = "ok")
        => Last(pp_out.forward.shape) = pp_out.num_channels

\* C24, second half: when project_pos_dim is set, the input width of the
\* projection is the output width of the position encoding.
C24_ProjectionFitsPositions ==
    (PpForwarded /\ pp_args.project_pos_dim > 0 /\ pp_out.features.status = "ok"
         /\ PpPositionEncoding.status = "ok")
        => pp_args.out_channels = Last(PpPositionEncoding.shape)

\* C24: for every configuration of the image preprocessor (the four prep
\* types, concat or add, image or video, with and without project_pos_dim and
\* conv_after_patching) num_channels equals the trailing width of the tokens
\* forward returns, and the positions projection takes the width the position
\* encoding produces.
C24_NumChannelsMatchesForward ==
    C24_NumChannelsIsForwardWidth /\ C24_ProjectionFitsPositions

\* C25: with prep_type "pixels" and a rank-4 input, the downsampling keeps every
\* spatial_downsample-th position of height and width and leaves batch and
\* channels alone; the output batch is the input batch.
C25_PixelsKeepBatchAndChannels ==
    (PpForwarded /\ pp_args.prep_type = "pixels" /\ ~pp_args.video)
        => /\ pp_out.features.status = "ok"
           /\ pp_out.features.shape =
                  <<pp_args.batch_size, CeilDiv(8, pp_args.spatial_downsample),
                    CeilDiv(8, pp_args.spatial_downsample), pp_args.in_channels>>

\* C22: in a multimodal preprocessor every modality's padded sequence has the
\* shared width, the largest num_channels plus min_padding_size, and the pad
\* built from the declared num_channels is as wide as the gap left by the
\* modality's actual output.
C22_PaddingFillsToSharedWidth ==
    (pp_pc = "padded" /\ pp_out.forward.status = "ok")
        => /\ SharedNumChannels(pp_args) - pp_out.num_channels
                  = SharedNumChannels(pp_args) - Last(pp_out.forward.shape)
           /\ pp_out.padded.image.status = "ok"
           /\ Last(pp_out.padded.image.shape) = SharedNumChannels(pp_args)
           /\ pp_out.padded.label.status = "ok"
           /\ Last(pp_out.padded.label.shape) = SharedNumChannels(pp_args)

\* the multimodal decoder has built the queries of its modalities
TkQueriesBuilt == tk_cfg.model = "multimodal" /\ DOMAIN tk_loc.queries # {}

\* embed on the query of modality m
EmbedShape(m) ==
    Embed(tk_cfg, m, [shape |-> tk_loc.queries[m].shape, rows |-> <<>>])

\* C23: in the multimodal decoder every modality's query is padded to the shared
\* width, the largest num_query_channels plus min_padding_size: the pad vector,
\* as wide as the shared width minus the sub-decoder's num_query_channels, is as
\* wide as the gap left by the query decoder_query returns, also for a
\* sub-decoder with a Fourier encoding over more than one axis.
C23_QueryPaddingFillsToSharedWidth ==
    TkQueriesBuilt =>
        \A m \in DOMAIN tk_loc.queries :
            tk_loc.queries[m].status = "ok" =>
                /\ NumQueryChannels(tk_cfg) - ModalityQueryChannels(ModalityDecoders(tk_cfg)[m])
                       = NumQueryChannels(tk_cfg) - Last(tk_loc.queries[m].shape)
                /\ EmbedShape(m).status = "ok"
                /\ Last(EmbedShape(m).shape) = NumQueryChannels(tk_cfg)

\* C26: with concat_preprocessed_input, decoder_query raises ValueError when
\* inputs_without_pos is absent, and otherwise returns the unpositioned input
\* concatenated with the position encoding on the feature axis: a tensor
\* [B, n, C] whose width is the sum of the two widths.
C26_ConcatPreprocessedInput ==
    (pe_op.name = "decoder_query" /\ pe_cfg.concat_preprocessed_input
         /\ pe_cfg.type # "none")
        => IF ~pe_op.has_iwp THEN pe_out.status = "ValueError"
           ELSE /\ pe_out.status = "ok"
                /\ Len(pe_out.shape) = 3
                /\ pe_out.shape[1] = pe_op.batch_size
                /\ pe_out.shape[3] = pe_op.inputs_shape[2] + PositionOutputSize(pe_cfg)

\* the values of a returned sequence, position by position, without the names
ValuesOf(items) == [k \in 1..Len(items) |-> [kind |-> items[k].kind, shapes |-> items[k].shapes]]

\* the fields of a structured result that are not None
NonNoneFields(items) == SelectSeq(items, LAMBDA it : it.kind # "none")

\* what the running call returns when it is made with return_dict=True: the
\* encoder's result, the decoder's cross-attentions merged as for that form
FwStructuredResult ==
    PerceiverModelReturn(TRUE, fw_loc.logits, fw_loc.sequence_output,
        MergeCrossAttentions([fw_loc.encoder_outputs EXCEPT !.extra = <<>>],
                             fw_loc.decoder_cross_attentions, fw_cfg.output_attentions, TRUE))

\* C27: the tuple PerceiverModel.forward returns with return_dict=False carries
\* the same values in the same positions as the non-None fields of the
\* structured result, for every combination of output_attentions,
\* output_hidden_states and decoder presence; the decoder's cross-attention is
\* merged into the single cross-attentions tuple in both forms.
C27_TupleMatchesStructuredResult ==
    (fw_pc = "done" /\ fw_out.form = "tuple")
        => ValuesOf(fw_out.outputs) = ValuesOf(NonNoneFields(FwStructuredResult))

\* the head-mask entry that gated the k-th self-attention application
\* (k = 1, 2, ...; the cross-attention is the first application of all)
GatingEntry(k) == hidden_states[k + 1].head

\* the self-attention applications made so far
SelfApplications == 1..(Len(hidden_states) - 1)

\* C28: the head mask is prepared with num_blocks * num_self_attends_per_block
\* entries; the self-attention application at layer position i of block
\* repetition b is gated by entry b * num_self_attends_per_block + i, so every
\* prepared entry gates exactly one layer application.
C28_HeadMaskEntryPerApplication ==
    (enc_args.has_head_mask /\ Len(hidden_states) >= 1)
        => /\ Len(enc_args.head_mask)
                  = enc_cfg.num_blocks * enc_cfg.num_self_attends_per_block
           /\ \A k \in SelfApplications : GatingEntry(k) = enc_args.head_mask[k]
           /\ enc_pc \in {"return", "done"} =>
                  \A e \in 1..Len(enc_args.head_mask) :
                      Cardinality({k \in SelfApplications :
                                       GatingEntry(k) = enc_args.head_mask[e]}) = 1

\* a result without the mask the encoder's cross-attention applied
WithoutEncoderMask(out) == [out EXCEPT !.encoder_mask = NoMask]

\* C29: in any cross-attention the additive mask applied to the scores is the
\* inputs_mask argument alone and the attention_mask argument has no effect:
\* the encoder's cross-attention applies the inverted input mask it is passed as
\* inputs_mask, the decoder's cross-attention, passed the same mask as
\* query_mask, applies none, and two calls that differ in the attention mask
\* only return results that differ in the encoder's cross-attention only.
C29_CrossAttentionAppliesInputsMaskOnly ==
    /\ fw_loc.encoder_outputs.status = "ok"
          => fw_loc.encoder_outputs.mask = fw_loc.extended_attention_mask
    /\ fw_loc.decoder_mask = NoMask
    /\ fw_pc = "done" => fw_out.decoder_mask = NoMask
    /\ (fw_run = 2 /\ fw_pc \in {"done", "raised"})
          => WithoutEncoderMask(fw_out) = WithoutEncoderMask(fw_first.out)

\* C29's case: a model with a Basic decoder returned from a call without mask
\* and from a call on the same input whose mask hides a token; the decoder was
\* passed the inverted mask as query_mask, and the two results differ
C29_WitnessMaskedCall ==
    /\ fw_run = 2 /\ fw_pc = "done" /\ fw_cfg.decoder = "basic"
    /\ fw_first.attention_mask = NoMask
    /\ fw_first.out.status = "ok"
    /\ \E i \in 1..Len(fw_args.attention_mask.vals) :
          \E k \in 1..Len(fw_args.attention_mask.vals[i]) :
              fw_args.attention_mask.vals[i][k] = 0
    /\ fw_loc.extended_attention_mask # NoMask
    /\ fw_out.encoder_mask # fw_first.out.encoder_mask

\* two rows of the rename table, the first before the second, with the same
\* destination, a weight key
SharedDestination(i, j) ==
    /\ i < j
    /\ rename_keys_object_detection_model[i].dest = rename_keys_object_detection_model[j].dest
    /\ rename_keys_object_detection_model[i].dest.param = "weight"

\* the rows of the table
TableRows == 1..Len(rename_keys_object_detection_model)

\* the renaming ran over the whole table: the state dict has fewer entries than
\* it started with, and under the destination rows i and j share it holds the
\* value of the later source, the value of the earlier source being lost
LaterOverwritesEarlier(i, j) ==
    rk_status = "done" =>
        /\ Cardinality(DOMAIN rk_state_dict) < Cardinality(DOMAIN rk_orig)
        /\ rk_state_dict[rename_keys_object_detection_model[j].dest]
               = rk_orig[rename_keys_object_detection_model[j].src]
        /\ \A k \in DOMAIN rk_state_dict :
               rk_state_dict[k] # rk_orig[rename_keys_object_detection_model[i].src]

\* C30 (as stated): the rename table of the classification heads maps two
\* source bias keys to the same destination weight key, so applying rename_key
\* over the table in order leaves the state dict with fewer entries than it
\* started with, the later source value overwriting the earlier one.
C30_TwoBiasKeysShareDestination ==
    \E i, j \in TableRows :
        /\ SharedDestination(i, j)
        /\ rename_keys_object_detection_model[i].src.param = "bias"
        /\ rename_keys_object_detection_model[j].src.param = "bias"
        /\ LaterOverwritesEarlier(i, j)

\* C30 (amended): the table maps the weight key and the bias key of one source
\* layer, bbox_embed.layers.1, to the same destination weight key, so applying
\* rename_key over the table in order leaves the state dict with one entry
\* fewer: the bias, renamed later, overwrites the weight under the shared key.
C30_WeightAndBiasShareDestination ==
    \E i, j \in TableRows :
        /\ SharedDestination(i, j)
        /\ rename_keys_object_detection_model[i].src = Key("bbox_embed.layers.1", "weight")
        /\ rename_keys_object_detection_model[j].src = Key("bbox_embed.layers.1", "bias")
        /\ \A a, b \in TableRows : SharedDestination(a, b) => (a = i /\ b = j)
        /\ LaterOverwritesEarlier(i, j)
        /\ rk_status = "done" =>
               Cardinality(DOMAIN rk_state_dict) = Cardinality(DOMAIN rk_orig) - 1

\* C30's case: the whole table was applied to a state dict holding every head
\* key, and bbox_predictor.layers.1.weight holds the bias of the source layer
C30_WitnessBiasUnderWeightKey ==
    /\ rk_status = "done"
    /\ rk_i = 8
    /\ HeadKeys \subseteq DOMAIN rk_orig
    /\ rk_state_dict[Key("bbox_predictor.layers.1", "weight")]
           = Key("bbox_embed.layers.1", "bias")
    /\ Key("bbox_predictor.layers.1", "bias") \notin DOMAIN rk_state_dict


====
